---- MODULE Spec2Model ----
(***************************************************************************)
(* A model of rwdsim's event-lifecycle simulation                          *)
(* (src/src/rwdsim/simulation.py): cohort generation, export-date          *)
(* assignment and the abstraction loop, with the date arithmetic of        *)
(* datetime.date and dateutil.relativedelta that the code relies on.       *)
(*                                                                         *)
(* A date is its proleptic Gregorian ordinal (date.toordinal()), so that   *)
(* comparison and timedelta arithmetic are integer comparison and          *)
(* addition.  An optional date (date | None) is a sequence of length 0     *)
(* (None) or 1 (the date).                                                 *)
(***************************************************************************)
EXTENDS Integers, Sequences, FiniteSets, TLC

VARIABLES
    sim_params,       \* the SimParams object of the run
    cohort,           \* list[Patient]: a sequence of patient records
    pc,               \* position of run_simulation
    assessment_date,  \* local of generate_abstracted_dates
    cycles,           \* completed iterations of the abstraction loop (saturating)
    error,            \* name of the exception that ended the run, or "none"
    probe,            \* the arguments and result of a pure function under test
    violations,       \* what sanity_check_patient_records reported to run_simulation
    cohort_df         \* the DataFrame run_simulation returns: a sequence of rows

vars == <<sim_params, cohort, pc, assessment_date, cycles, error, probe,
          violations, cohort_df>>

-----------------------------------------------------------------------------
(* Bounds of the model *)

\* Last year of the model's calendar; it stands for datetime.MAXYEAR (9999).
MaxYear == 2020

\* Largest cohort_size a configuration may ask for.
MaxCohort == 2

\* Largest db_update_frequency_in_months of the run's configurations.
MaxCadence == 2

\* Largest patients_abstracted_per_month of the run's configurations.
MaxThroughput == 1

\* Largest observation_period given to calculate_probabilities_over_period;
\* calculate_missing_probabilities is given periods up to twice as long.
MaxPeriod == 5

-----------------------------------------------------------------------------
(* datetime.date *)

None == <<>>

Some(d) == <<d>>

Min(a, b) == IF a <= b THEN a ELSE b

Years == 2019..MaxYear

IsLeap(y) == (y % 4 = 0) /\ ((y % 100 # 0) \/ (y % 400 = 0))

DaysInMonth(y, m) ==
    IF m = 2 THEN (IF IsLeap(y) THEN 29 ELSE 28)
    ELSE IF m \in {4, 6, 9, 11} THEN 30 ELSE 31

DaysBeforeYear(y) ==
    (y - 1) * 365 + ((y - 1) \div 4) - ((y - 1) \div 100) + ((y - 1) \div 400)

RECURSIVE DaysBeforeMonth(_, _)
DaysBeforeMonth(y, m) ==
    IF m = 1 THEN 0 ELSE DaysBeforeMonth(y, m - 1) + DaysInMonth(y, m - 1)

\* date(y, m, d).toordinal()
Date(y, m, d) == DaysBeforeYear(y) + DaysBeforeMonth(y, m) + d

FirstDate == Date(2019, 1, 1)

LastDate == Date(MaxYear, 12, 31)

Dates == FirstDate..LastDate

\* date.fromordinal(n) as <<year, month, day>>, tabulated over the calendar.
Ymd ==
    [n \in Dates |->
        LET y == CHOOSE yy \in Years : Date(yy, 1, 1) <= n /\ n <= Date(yy, 12, 31)
            m == CHOOSE mm \in 1..12 :
                     Date(y, mm, 1) <= n /\ n <= Date(y, mm, DaysInMonth(y, mm))
        IN  <<y, m, n - Date(y, m, 1) + 1>>]

YearOf(n) == Ymd[n][1]

MonthOf(n) == Ymd[n][2]

DayOf(n) == Ymd[n][3]

\* date.replace(day=d)
ReplaceDay(n, d) == Date(YearOf(n), MonthOf(n), d)

\* Months counted from year 0, so that month arithmetic is integer arithmetic.
MonthIndex(n) == YearOf(n) * 12 + (MonthOf(n) - 1)

\* dt + relativedelta(months=k, day=day) raises ValueError when the year
\* leaves [MINYEAR, MAXYEAR].
AddMonthsOverflows(n, k) == ((MonthIndex(n) + k) \div 12) > MaxYear

\* dt + relativedelta(months=k, day=day): the months are added first, then the
\* day is set to `day` (day = 0: the day is kept), clipped to the month's length.
AddMonths(n, k, day) ==
    LET mi == MonthIndex(n) + k
        y  == mi \div 12
        m  == (mi % 12) + 1
        d  == Min(DaysInMonth(y, m), IF day = 0 THEN DayOf(n) ELSE day)
    IN  Date(y, m, d)

-----------------------------------------------------------------------------
(* ExportScheduler: calculate_exported_date *)

\* months_since_study_start % db_update_frequency_in_months with a zero
\* frequency raises ZeroDivisionError.
calculate_exported_date_raises(event_date, study_start_date, db_update_frequency_in_months) ==
    /\ event_date # None
    /\ ~(event_date[1] < study_start_date)
    /\ db_update_frequency_in_months = 0

FirstExportAfterStudyStart_second_cycle(study_start_date, db_update_frequency_in_months) ==
    AddMonths(ReplaceDay(study_start_date, 1), 2 * db_update_frequency_in_months, 0)

\* dt.replace(day=1) + relativedelta(months=db_update_frequency_in_months)
FirstExportAfterStudyStart_keep_day(study_start_date, db_update_frequency_in_months) ==
    AddMonths(study_start_date, db_update_frequency_in_months, 0)

FirstExportAfterStudyStart(study_start_date, db_update_frequency_in_months) ==
    AddMonths(ReplaceDay(study_start_date, 1), db_update_frequency_in_months, 0)

MonthsUntilNextExport_no_modulo(months_since_study_start, db_update_frequency_in_months) ==
    db_update_frequency_in_months

MonthsUntilNextExport_no_roll(months_since_study_start, db_update_frequency_in_months) ==
    LET months_since_last_export ==
            months_since_study_start % db_update_frequency_in_months
    IN  IF months_since_last_export = 0
        THEN 0
        ELSE db_update_frequency_in_months - months_since_last_export

\* months_until_next_export: the months to the next export cycle; an event in
\* an export month goes to the next cycle.
MonthsUntilNextExport(months_since_study_start, db_update_frequency_in_months) ==
    LET months_since_last_export ==
            months_since_study_start % db_update_frequency_in_months
        months_until_next_export ==
            db_update_frequency_in_months - months_since_last_export
    IN  IF months_since_last_export = 0
        THEN db_update_frequency_in_months
        ELSE months_until_next_export

calculate_exported_date_unset_as_early(event_date, study_start_date, db_update_frequency_in_months) ==
    IF event_date = None \/ event_date[1] < study_start_date
    THEN Some(FirstExportAfterStudyStart(study_start_date, db_update_frequency_in_months))
    ELSE
        LET months_since_study_start ==
                (YearOf(event_date[1]) - YearOf(study_start_date)) * 12
                    + MonthOf(event_date[1]) - MonthOf(study_start_date)
            next_export_date ==
                AddMonths(event_date[1],
                          MonthsUntilNextExport(months_since_study_start,
                                                db_update_frequency_in_months),
                          0)
        IN  Some(ReplaceDay(next_export_date, 1))

calculate_exported_date(event_date, study_start_date, db_update_frequency_in_months) ==
    IF event_date = None THEN None
    ELSE IF event_date[1] < study_start_date
    THEN Some(FirstExportAfterStudyStart(study_start_date, db_update_frequency_in_months))
    ELSE
        LET months_since_study_start ==
                (YearOf(event_date[1]) - YearOf(study_start_date)) * 12
                    + MonthOf(event_date[1]) - MonthOf(study_start_date)
            next_export_date ==
                AddMonths(event_date[1],
                          MonthsUntilNextExport(months_since_study_start,
                                                db_update_frequency_in_months),
                          0)
        IN  Some(ReplaceDay(next_export_date, 1))

-----------------------------------------------------------------------------
(* Configurations of the run *)

\* The three tracked events, in the order the code iterates over them.
Events == <<"diagnosis", "drug", "death">>

\* Drug (classes.py): the survival curve is represented by the year offsets
\* its interpolator can return for this model's draws (see YearDeltas).
DrugA == [name |-> "A", start_date_range |-> <<20, 21>>]

DrugB == [name |-> "B", start_date_range |-> <<-1, -1>>]

DrugC == [name |-> "C", start_date_range |-> <<21, 21>>]

\* Three latency profiles: one with non-negative latencies, one whose ranges
\* reach below zero (SimParams accepts any tuple[int, int]), one with every
\* latency range (0, 0).
LatencyProfiles ==
    { [death_date_recording_latency_range |-> <<0, 1>>,
       diagnosis_date_abstraction_latency_range |-> <<1, 1>>,
       drug_date_abstraction_latency_range |-> <<0, 0>>,
       death_date_abstraction_latency_range |-> <<0, 1>>,
       drugs |-> <<DrugA>>],
      [death_date_recording_latency_range |-> <<-1, -1>>,
       diagnosis_date_abstraction_latency_range |-> <<-1, -1>>,
       drug_date_abstraction_latency_range |-> <<0, 0>>,
       death_date_abstraction_latency_range |-> <<0, 0>>,
       drugs |-> <<DrugB, DrugC>>],
      [death_date_recording_latency_range |-> <<0, 0>>,
       diagnosis_date_abstraction_latency_range |-> <<0, 0>>,
       drug_date_abstraction_latency_range |-> <<0, 0>>,
       death_date_abstraction_latency_range |-> <<0, 0>>,
       drugs |-> <<DrugA>>] }

\* SimParams (classes.py): every field the simulation reads.
SimParamsSet ==
    { [observation_start_date |-> Date(2020, 1, 10),
       observation_end_date |-> Date(2020, 2, 16),
       study_start_date |-> Date(2020, 1, 15),
       cohort_size |-> n,
       db_update_frequency_in_months |-> c,
       patients_abstracted_per_month |-> t,
       death_date_recording_latency_range |-> l.death_date_recording_latency_range,
       diagnosis_date_abstraction_latency_range |-> l.diagnosis_date_abstraction_latency_range,
       drug_date_abstraction_latency_range |-> l.drug_date_abstraction_latency_range,
       death_date_abstraction_latency_range |-> l.death_date_abstraction_latency_range,
       drugs |-> l.drugs] :
      n \in 0..MaxCohort, c \in 0..MaxCadence, t \in 0..MaxThroughput,
      l \in LatencyProfiles }

\* random.randint(a, b): both bounds inclusive.
RandInt(range) == range[1]..range[2]

-----------------------------------------------------------------------------
(* EventDateGenerator and PatientCohortGenerator *)

generate_random_date_inclusive(start_date, end_date, draw) == start_date + draw + 1

\* simutils.generate_random_date: np.random.randint(0, days) excludes `days`.
generate_random_date(start_date, end_date, draw) == start_date + draw

\* The draws of np.random.randint(0, days) the model follows: the extremes.
DiagnosisDraws(start_date, end_date) == {0, (end_date - start_date) - 1}

\* The interpolated year offsets the model follows, as <<numerator,
\* denominator>> of a year; NaN is the interpolator's answer outside its domain.
NaN == <<>>

YearDeltas == {NaN, <<23, 400>>}

\* timedelta(days=year_delta * 365.25) added to a date: date.__add__ uses the
\* timedelta's whole days only (for a non-negative offset, the floor).
determine_death_date(diagnosis_date, year_delta) ==
    IF year_delta = NaN THEN None
    ELSE Some(diagnosis_date + ((year_delta[1] * 36525) \div (year_delta[2] * 100)))

simulate_delayed_recording_date(event_date, latency_days) ==
    IF event_date = None THEN None ELSE Some(event_date[1] + latency_days)

determine_treatment_date_not_after(diagnosis_date, death_date, treatment_date_offset) ==
    LET treatment_date == diagnosis_date + treatment_date_offset
    IN  IF death_date = None \/ treatment_date <= death_date[1]
        THEN Some(treatment_date)
        ELSE None

determine_treatment_date(diagnosis_date, death_date, treatment_date_offset) ==
    LET treatment_date == diagnosis_date + treatment_date_offset
    IN  IF death_date = None \/ treatment_date < death_date[1]
        THEN Some(treatment_date)
        ELSE None

\* One iteration of generate_patient_cohort's loop, for given random draws.
NewPatient(patient_id, draw, drug, year_delta, latency, offset) ==
    LET diagnosis_date ==
            generate_random_date(sim_params.observation_start_date,
                                 sim_params.observation_end_date, draw)
        death_date == determine_death_date(diagnosis_date, year_delta)
        death_date_recorded ==
            IF death_date # None
            THEN simulate_delayed_recording_date(death_date, latency)
            ELSE None
        drug_date == determine_treatment_date(diagnosis_date, death_date, offset)
    IN  [patient_id |-> patient_id,
         drug |-> drug,
         diagnosis_date |-> Some(diagnosis_date),
         drug_date |-> drug_date,
         death_date |-> death_date,
         death_date_recorded |-> death_date_recorded,
         diagnosis_date_exported |-> None,
         drug_date_exported |-> None,
         death_date_exported |-> None,
         diagnosis_date_abstracted |-> None,
         drug_date_abstracted |-> None,
         death_date_abstracted |-> None]

\* simutils.select_drug: a weighted random choice among the configured drugs.
select_drug(drugs) == {drugs[k] : k \in DOMAIN drugs}

NewPatients_zero_based(patient_id) ==
    UNION { { NewPatient(patient_id - 1, draw, drug, year_delta, latency, offset) :
                draw \in DiagnosisDraws(sim_params.observation_start_date,
                                        sim_params.observation_end_date),
                year_delta \in YearDeltas,
                latency \in RandInt(sim_params.death_date_recording_latency_range),
                offset \in RandInt(drug.start_date_range) } :
            drug \in select_drug(sim_params.drugs) }

\* The Patient records one iteration of generate_patient_cohort can append.
NewPatients(patient_id) ==
    UNION { { NewPatient(patient_id, draw, drug, year_delta, latency, offset) :
                draw \in DiagnosisDraws(sim_params.observation_start_date,
                                        sim_params.observation_end_date),
                year_delta \in YearDeltas,
                latency \in RandInt(sim_params.death_date_recording_latency_range),
                offset \in RandInt(drug.start_date_range) } :
            drug \in select_drug(sim_params.drugs) }

\* generate_patient_cohort: the cohorts the loop over patient_id in
\* range(1, cohort_size + 1) can build, one append per iteration.
RECURSIVE CohortsUpTo(_)
CohortsUpTo(n) ==
    IF n = 0 THEN {<<>>}
    ELSE {Append(c, p) : c \in CohortsUpTo(n - 1), p \in NewPatients(n)}

generate_patient_cohort == CohortsUpTo(sim_params.cohort_size)

-----------------------------------------------------------------------------
(* ExportScheduler: generate_exported_dates *)

\* The event-date attributes generate_exported_dates reads, in its order, each
\* with the exported attribute it writes (the "_recorded" suffix is removed).
ExportAttrs ==
    << <<"diagnosis_date", "diagnosis_date_exported">>,
       <<"drug_date", "drug_date_exported">>,
       <<"death_date_recorded", "death_date_exported">> >>

\* The setattr calls are numbered 1..3*len(patients) in execution order.
ExportPatientOf(step) == ((step - 1) \div 3) + 1

ExportAttrOf(step) == ExportAttrs[((step - 1) % 3) + 1]

ExportRaisesAt(patients, step) ==
    calculate_exported_date_raises(
        patients[ExportPatientOf(step)][ExportAttrOf(step)[1]],
        sim_params.study_start_date,
        sim_params.db_update_frequency_in_months)

\* The first setattr call whose calculate_exported_date raises; 0 when none does.
FirstExportRaise(patients) ==
    IF \E step \in 1..(3 * Len(patients)) : ExportRaisesAt(patients, step)
    THEN CHOOSE step \in 1..(3 * Len(patients)) :
             /\ ExportRaisesAt(patients, step)
             /\ \A earlier \in 1..(step - 1) : ~ExportRaisesAt(patients, earlier)
    ELSE 0

\* The patients after the setattr calls 1..last have run, each reading the
\* attribute attrs names for it and writing its exported attribute.
ExportedDates(attrs, patients, last) ==
    [i \in 1..Len(patients) |->
        [attr \in DOMAIN patients[i] |->
            IF \E step \in 1..last :
                   ExportPatientOf(step) = i /\ ExportAttrOf(step)[2] = attr
            THEN LET step == CHOOSE st \in 1..last :
                                 ExportPatientOf(st) = i /\ ExportAttrOf(st)[2] = attr
                 IN  calculate_exported_date(
                         patients[i][attrs[((step - 1) % 3) + 1][1]],
                         sim_params.study_start_date,
                         sim_params.db_update_frequency_in_months)
            ELSE patients[i][attr]]]

generate_exported_dates_from_death_date(patients, last) ==
    ExportedDates(<< <<"diagnosis_date", "diagnosis_date_exported">>,
                     <<"drug_date", "drug_date_exported">>,
                     <<"death_date", "death_date_exported">> >>,
                  patients, last)

generate_exported_dates(patients, last) == ExportedDates(ExportAttrs, patients, last)

-----------------------------------------------------------------------------
(* AbstractionSimulator *)

calculate_next_abstraction_assessment_date_first_day(offset_date) ==
    AddMonths(offset_date, sim_params.db_update_frequency_in_months, 1)

calculate_next_abstraction_assessment_date(offset_date) ==
    AddMonths(offset_date, sim_params.db_update_frequency_in_months, 2)

is_event_abstractable_newest_batch(event_date_exported, event_date_abstracted, date) ==
    /\ event_date_abstracted = None
    /\ event_date_exported # None
    /\ event_date_exported[1] <= date
    /\ event_date_exported[1] > date - DaysInMonth(YearOf(date), MonthOf(date))

is_event_abstractable_ignoring_abstracted(event_date_exported, event_date_abstracted, date) ==
    ~(event_date_exported = None \/ event_date_exported[1] > date)

is_event_abstractable_any_date(event_date_exported, event_date_abstracted, date) ==
    /\ event_date_abstracted = None
    /\ event_date_exported # None

is_event_abstractable(event_date_exported, event_date_abstracted, date) ==
    /\ event_date_abstracted = None
    /\ ~(event_date_exported = None \/ event_date_exported[1] > date)

is_patient_abstractable_diagnosis_only(patient, date) ==
    is_event_abstractable(patient.diagnosis_date_exported,
                          patient.diagnosis_date_abstracted,
                          date)

is_patient_abstractable(patient, date) ==
    \E k \in DOMAIN Events :
        is_event_abstractable(patient[Events[k] \o "_date_exported"],
                              patient[Events[k] \o "_date_abstracted"],
                              date)

is_patient_fully_abstracted(patient) ==
    /\ ~(patient.diagnosis_date # None /\ patient.diagnosis_date_abstracted = None)
    /\ ~(patient.drug_date # None /\ patient.drug_date_abstracted = None)
    /\ ~(patient.death_date # None /\ patient.death_date_abstracted = None)

set_events_abstracted_date_subtracting_latency(patient, event_name, date, abstraction_latency) ==
    LET event_exported_date == patient[event_name \o "_date_exported"]
        abstracted_date == patient[event_name \o "_date_abstracted"]
    IN  IF is_event_abstractable(event_exported_date, abstracted_date, date)
        THEN [patient EXCEPT ![event_name \o "_date_abstracted"] =
                                 Some(event_exported_date[1] - abstraction_latency)]
        ELSE patient

set_events_abstracted_date_stamping_export(patient, event_name, date, abstraction_latency) ==
    LET event_exported_date == patient[event_name \o "_date_exported"]
        abstracted_date == patient[event_name \o "_date_abstracted"]
    IN  IF is_event_abstractable(event_exported_date, abstracted_date, date)
        THEN [patient EXCEPT ![event_name \o "_date_abstracted"] =
                                 Some(event_exported_date[1] + abstraction_latency),
                             ![event_name \o "_date_exported"] = Some(date)]
        ELSE patient

set_events_abstracted_date_from_assessment(patient, event_name, date, abstraction_latency) ==
    LET event_exported_date == patient[event_name \o "_date_exported"]
        abstracted_date == patient[event_name \o "_date_abstracted"]
    IN  IF is_event_abstractable(event_exported_date, abstracted_date, date)
        THEN [patient EXCEPT ![event_name \o "_date_abstracted"] =
                                 Some(date + abstraction_latency)]
        ELSE patient

\* set_events_abstracted_date, for a given draw of random.randint(*latency_range).
set_events_abstracted_date(patient, event_name, date, abstraction_latency) ==
    LET event_exported_date == patient[event_name \o "_date_exported"]
        abstracted_date == patient[event_name \o "_date_abstracted"]
    IN  IF is_event_abstractable(event_exported_date, abstracted_date, date)
        THEN [patient EXCEPT ![event_name \o "_date_abstracted"] =
                                 Some(event_exported_date[1] + abstraction_latency)]
        ELSE patient

\* The latency ranges of the three events, in the order of Events.
LatencyRange(event_name) == sim_params[event_name \o "_date_abstraction_latency_range"]

\* One draw per event of a patient.
LatencyDraws ==
    RandInt(LatencyRange(Events[1])) \X RandInt(LatencyRange(Events[2]))
        \X RandInt(LatencyRange(Events[3]))

AbstractPatient_one_event(patient, date, draws) ==
    LET diagnosis == set_events_abstracted_date(patient, Events[1], date, draws[1])
        drug == set_events_abstracted_date(patient, Events[2], date, draws[2])
    IN  IF diagnosis # patient THEN diagnosis
        ELSE IF drug # patient THEN drug
        ELSE set_events_abstracted_date(patient, Events[3], date, draws[3])

\* The inner loop over ['diagnosis', 'drug', 'death'] for one selected patient.
AbstractPatient(patient, date, draws) ==
    set_events_abstracted_date(
        set_events_abstracted_date(
            set_events_abstracted_date(patient, Events[1], date, draws[1]),
            Events[2], date, draws[2]),
        Events[3], date, draws[3])

AbstractablePatients(patients, date) ==
    {i \in 1..Len(patients) : is_patient_abstractable(patients[i], date)}

SampleSize_one_less(abstractable_patients) ==
    Min(sim_params.patients_abstracted_per_month * sim_params.db_update_frequency_in_months,
        Cardinality(abstractable_patients)) - 1

SampleSize_per_month(abstractable_patients) ==
    Min(sim_params.patients_abstracted_per_month, Cardinality(abstractable_patients))

\* The size of random.sample's sample.
SampleSize(abstractable_patients) ==
    Min(sim_params.patients_abstracted_per_month * sim_params.db_update_frequency_in_months,
        Cardinality(abstractable_patients))

CyclesCap == 3 * MaxCohort + 2

CountCycle(n) == IF n < CyclesCap THEN n + 1 ELSE n

-----------------------------------------------------------------------------
(* run_simulation *)

NoProbe == [fn |-> "none"]

Init ==
    /\ sim_params \in SimParamsSet
    /\ cohort = <<>>
    /\ pc = "start"
    /\ assessment_date = None
    /\ cycles = 0
    /\ error = "none"
    /\ probe = NoProbe
    /\ violations = <<>>
    /\ cohort_df = <<>>

\* cohort = generate_patient_cohort(simulation_params)
GenerateCohort ==
    /\ pc = "start"
    /\ cohort' \in generate_patient_cohort
    /\ pc' = "generated"
    /\ UNCHANGED <<sim_params, assessment_date, cycles, error, probe, violations, cohort_df>>

\* generate_exported_dates(patients=cohort, sim_params=simulation_params)
GenerateExportedDates ==
    /\ pc = "generated"
    /\ LET raise == FirstExportRaise(cohort)
       IN  IF raise = 0
           THEN /\ cohort' = generate_exported_dates(cohort, 3 * Len(cohort))
                /\ pc' = "exported"
                /\ error' = error
           ELSE /\ cohort' = generate_exported_dates(cohort, raise - 1)
                /\ pc' = "export_raised"
                /\ error' = "ZeroDivisionError"
    /\ UNCHANGED <<sim_params, assessment_date, cycles, probe, violations, cohort_df>>

\* generate_abstracted_dates up to the loop: the first assessment date.
BeginAbstraction ==
    /\ pc = "exported"
    /\ IF AddMonthsOverflows(sim_params.study_start_date,
                             sim_params.db_update_frequency_in_months)
       THEN /\ pc' = "abstraction_raised"
            /\ error' = "ValueError"
            /\ assessment_date' = assessment_date
       ELSE /\ pc' = "abstracting"
            /\ error' = error
            /\ assessment_date' =
                   Some(calculate_next_abstraction_assessment_date(sim_params.study_start_date))
    /\ UNCHANGED <<sim_params, cohort, cycles, probe, violations, cohort_df>>

\* One iteration of the loop that finds no abstractable patient: break.
AbstractionExit ==
    /\ pc = "abstracting"
    /\ AbstractablePatients(cohort, assessment_date[1]) = {}
    /\ pc' = "returned"
    /\ cycles' = CountCycle(cycles)
    /\ UNCHANGED <<sim_params, cohort, assessment_date, error, probe, violations, cohort_df>>

\* One iteration of the loop that finds abstractable patients: sample, set the
\* abstracted dates, advance the assessment date, test for full abstraction.
AbstractionCycle ==
    /\ pc = "abstracting"
    /\ LET abstractable_patients == AbstractablePatients(cohort, assessment_date[1])
       IN  /\ abstractable_patients # {}
           /\ \E patients_to_abstract \in SUBSET abstractable_patients :
                /\ Cardinality(patients_to_abstract) = SampleSize(abstractable_patients)
                /\ \E draws \in [patients_to_abstract -> LatencyDraws] :
                     cohort' = [i \in 1..Len(cohort) |->
                                   IF i \in patients_to_abstract
                                   THEN AbstractPatient(cohort[i], assessment_date[1], draws[i])
                                   ELSE cohort[i]]
    /\ cycles' = CountCycle(cycles)
    /\ IF AddMonthsOverflows(assessment_date[1], sim_params.db_update_frequency_in_months)
       THEN /\ pc' = "abstraction_raised"
            /\ error' = "ValueError"
            /\ assessment_date' = assessment_date
       ELSE /\ assessment_date' =
                   Some(calculate_next_abstraction_assessment_date(assessment_date[1]))
            /\ error' = error
            /\ pc' = IF \A i \in 1..Len(cohort) : is_patient_fully_abstracted(cohort'[i])
                     THEN "returned"
                     ELSE "abstracting"
    /\ UNCHANGED <<sim_params, probe, violations, cohort_df>>

-----------------------------------------------------------------------------
(* ConsistencyChecker: sanity_check_patient_records *)

\* The checks sanity_check_patient_records makes on one patient, in the order
\* it makes them; each raises Exception when it fails.
SanityChecks ==
    << [rule |-> "not_set", event |-> "diagnosis"],
       [rule |-> "recorded_incorrectly", event |-> "death"],
       [rule |-> "after_export", event |-> "diagnosis"],
       [rule |-> "export_after_abstraction", event |-> "diagnosis"],
       [rule |-> "after_abstraction", event |-> "diagnosis"],
       [rule |-> "after_export", event |-> "drug"],
       [rule |-> "export_after_abstraction", event |-> "drug"],
       [rule |-> "after_abstraction", event |-> "drug"],
       [rule |-> "after_export", event |-> "death"],
       [rule |-> "export_after_abstraction", event |-> "death"],
       [rule |-> "after_abstraction", event |-> "death"] >>

IsAfter_or_equal(a, b) == a # None /\ b # None /\ a[1] >= b[1]

\* a and b and a > b, for optional dates (a date is always truthy).
IsAfter(a, b) == a # None /\ b # None /\ a[1] > b[1]

\* The condition of the k-th check's `if` for a patient.
FailsCheck(patient, k) ==
    LET event == SanityChecks[k].event
        event_date == patient[event \o "_date"]
        event_date_exported == patient[event \o "_date_exported"]
        event_date_abstracted == patient[event \o "_date_abstracted"]
    IN  CASE SanityChecks[k].rule = "not_set" ->
                patient.diagnosis_date = None
          [] SanityChecks[k].rule = "recorded_incorrectly" ->
                /\ patient.death_date # None
                /\ \/ patient.death_date_recorded = None
                   \/ patient.death_date[1] > patient.death_date_recorded[1]
          [] SanityChecks[k].rule = "after_export" ->
                IsAfter(event_date, event_date_exported)
          [] SanityChecks[k].rule = "export_after_abstraction" ->
                IsAfter(event_date_exported, event_date_abstracted)
          [] SanityChecks[k].rule = "after_abstraction" ->
                IsAfter(event_date, event_date_abstracted)

\* The exception a failed check raises: its message names the rule, the event
\* and the patient's id.
Violation(patient, k) ==
    [patient_id |-> patient.patient_id,
     rule |-> SanityChecks[k].rule,
     event |-> SanityChecks[k].event]

\* The checks are numbered in execution order: patient by patient, and for
\* each patient in the order of SanityChecks.
CheckPatientOf(step) == ((step - 1) \div Len(SanityChecks)) + 1

CheckOf(step) == ((step - 1) % Len(SanityChecks)) + 1

CheckFailsAt(patients, step) ==
    FailsCheck(patients[CheckPatientOf(step)], CheckOf(step))

\* sanity_check_patient_records: the exceptions it raises, as a sequence: empty
\* when every check passes, else the one exception of the first failing check.
sanity_check_patient_records(patients) ==
    LET steps == 1..(Len(patients) * Len(SanityChecks))
    IN  IF \A step \in steps : ~CheckFailsAt(patients, step)
        THEN <<>>
        ELSE LET first == CHOOSE step \in steps :
                              /\ CheckFailsAt(patients, step)
                              /\ \A earlier \in 1..(step - 1) :
                                     ~CheckFailsAt(patients, earlier)
             IN  <<Violation(patients[CheckPatientOf(first)], CheckOf(first))>>

-----------------------------------------------------------------------------
(* The output table *)

\* The orders in which the rows 1..n can be arranged.
RowOrders(n) == {order \in [1..n -> 1..n] : \A i \in 1..n : \E k \in 1..n : order[k] = i}

sort_values_descending(rows, by) ==
    { [k \in 1..Len(rows) |-> rows[order[k]]] :
        order \in {o \in RowOrders(Len(rows)) :
                      \A j, k \in 1..Len(rows) :
                          j < k => rows[o[j]][by][1] >= rows[o[k]][by][1]} }

\* DataFrame.sort_values(by=...): the rows in ascending order of the column;
\* the default sort is not stable, so rows with equal keys come in any order.
sort_values(rows, by) ==
    { [k \in 1..Len(rows) |-> rows[order[k]]] :
        order \in {o \in RowOrders(Len(rows)) :
                      \A j, k \in 1..Len(rows) :
                          j < k => rows[o[j]][by][1] <= rows[o[k]][by][1]} }

\* try: sanity_check_patient_records(cohort) ... except Exception as e: print
RunSanityCheck_uncaught ==
    /\ pc = "returned"
    /\ violations' = sanity_check_patient_records(cohort)
    /\ IF violations' = <<>>
       THEN pc' = "checked" /\ error' = error
       ELSE pc' = "check_raised" /\ error' = "Exception"
    /\ UNCHANGED <<sim_params, cohort, assessment_date, cycles, probe, cohort_df>>

RunSanityCheck ==
    /\ pc = "returned"
    /\ violations' = sanity_check_patient_records(cohort)
    /\ pc' = "checked"
    /\ UNCHANGED <<sim_params, cohort, assessment_date, cycles, error, probe, cohort_df>>

\* cohort_df = DataFrame(cohort).sort_values(by='diagnosis_date'), the column
\* selection and the return.  A DataFrame built from an empty list has no
\* columns, and sort_values raises KeyError('diagnosis_date').
BuildTable ==
    /\ pc = "checked"
    /\ IF Len(cohort) = 0
       THEN /\ pc' = "table_raised"
            /\ error' = "KeyError"
            /\ cohort_df' = cohort_df
       ELSE /\ pc' = "done"
            /\ error' = error
            /\ cohort_df' \in sort_values(cohort, "diagnosis_date")
    /\ UNCHANGED <<sim_params, cohort, assessment_date, cycles, probe, violations>>

Next ==
    \/ GenerateCohort
    \/ GenerateExportedDates
    \/ BeginAbstraction
    \/ AbstractionExit
    \/ AbstractionCycle
    \/ RunSanityCheck
    \/ BuildTable

Spec == Init /\ [][Next]_vars

-----------------------------------------------------------------------------
(* calculate_exported_date as a pure function: it is applied to an event     *)
(* date, and then to the export date it returned.                            *)

ProbeStudyStarts == {Date(2020, 1, 1), Date(2020, 1, 15), Date(2020, 1, 31)}

ProbeEventDates == Date(2019, 12, 1)..Date(2020, 4, 30)

ProbeCadences == 0..(MaxCadence + 1)

InitExport ==
    /\ sim_params = NoProbe
    /\ cohort = <<>>
    /\ pc = "probe"
    /\ assessment_date = None
    /\ cycles = 0
    /\ error = "none"
    /\ violations = <<>>
    /\ cohort_df = <<>>
    /\ probe \in { [fn |-> "calculate_exported_date",
                    at |-> "args",
                    event_date |-> e,
                    study_start_date |-> s,
                    db_update_frequency_in_months |-> c,
                    exported_date |-> None,
                    reexported_date |-> None,
                    raised |-> FALSE] :
                   e \in {None} \cup {Some(d) : d \in ProbeEventDates},
                   s \in ProbeStudyStarts, c \in ProbeCadences }

\* exported_date = calculate_exported_date(event_date, study_start_date, cadence)
ExportEvent ==
    /\ probe.fn = "calculate_exported_date"
    /\ probe.at = "args"
    /\ IF calculate_exported_date_raises(probe.event_date, probe.study_start_date,
                                         probe.db_update_frequency_in_months)
       THEN probe' = [probe EXCEPT !.at = "exported", !.raised = TRUE]
       ELSE probe' = [probe EXCEPT
                        !.at = "exported",
                        !.exported_date =
                            calculate_exported_date(probe.event_date, probe.study_start_date,
                                                    probe.db_update_frequency_in_months)]
    /\ UNCHANGED <<sim_params, cohort, pc, assessment_date, cycles, error,
                   violations, cohort_df>>

\* reexported_date = calculate_exported_date(exported_date, study_start_date, cadence)
ReexportEvent ==
    /\ probe.fn = "calculate_exported_date"
    /\ probe.at = "exported"
    /\ ~probe.raised
    /\ IF calculate_exported_date_raises(probe.exported_date, probe.study_start_date,
                                         probe.db_update_frequency_in_months)
       THEN probe' = [probe EXCEPT !.at = "reexported", !.raised = TRUE]
       ELSE probe' = [probe EXCEPT
                        !.at = "reexported",
                        !.reexported_date =
                            calculate_exported_date(probe.exported_date, probe.study_start_date,
                                                    probe.db_update_frequency_in_months)]
    /\ UNCHANGED <<sim_params, cohort, pc, assessment_date, cycles, error,
                   violations, cohort_df>>

NextExport ==
    \/ ExportEvent
    \/ ReexportEvent

SpecExport == InitExport /\ [][NextExport]_vars

-----------------------------------------------------------------------------
(* SurvivalCurveSampler: _get_interpolator and determine_death_date as pure  *)
(* functions of the survival curve, the draw and the diagnosis date.         *)

\* A survival curve (dict[int, float]) is the sequence of its <<year,
\* probability>> items in insertion order; a probability and a draw of
\* random.random() are given in hundredths.
SurvivalCurves ==
    { << <<1, 85>>, <<3, 45>>, <<5, 32>> >>,
      << <<2, 50>> >> }

Keys(survival_probabilities) ==
    [k \in DOMAIN survival_probabilities |-> survival_probabilities[k][1]]

Values(survival_probabilities) ==
    [k \in DOMAIN survival_probabilities |-> survival_probabilities[k][2]]

\* seq[::-1]
Reversed(seq) == [k \in 1..Len(seq) |-> seq[Len(seq) + 1 - k]]

\* The data points PchipInterpolator is built on: x = [1.0] + probabilities
\* and y = [0] + years, both reversed.
_get_interpolator(survival_years, survival_probabilities) ==
    [x |-> Reversed(<<100>> \o survival_probabilities),
     y |-> Reversed(<<0>> \o survival_years)]

interpolated_extrapolate(interpolator, u) ==
    IF u < interpolator.x[1]
    THEN <<interpolator.y[1], 1>>
    ELSE IF u > interpolator.x[Len(interpolator.x)]
    THEN <<interpolator.y[Len(interpolator.y)], 1>>
    ELSE IF \E k \in DOMAIN interpolator.x : interpolator.x[k] = u
    THEN <<interpolator.y[CHOOSE k \in DOMAIN interpolator.x : interpolator.x[k] = u], 1>>
    ELSE <<interpolator.y[1] * (interpolator.x[2] - interpolator.x[1])
               + (interpolator.y[2] - interpolator.y[1]) * (u - interpolator.x[1]),
           interpolator.x[2] - interpolator.x[1]>>

interpolated_unanchored(interpolator, u) ==
    IF u < interpolator.x[1] \/ u >= interpolator.x[Len(interpolator.x)]
    THEN NaN
    ELSE IF \E k \in DOMAIN interpolator.x : interpolator.x[k] = u
    THEN <<interpolator.y[CHOOSE k \in DOMAIN interpolator.x : interpolator.x[k] = u], 1>>
    ELSE <<interpolator.y[1] * (interpolator.x[2] - interpolator.x[1])
               + (interpolator.y[2] - interpolator.y[1]) * (u - interpolator.x[1]),
           interpolator.x[2] - interpolator.x[1]>>

\* PchipInterpolator(x, y, extrapolate=False) evaluated at u, as a fraction
\* <<numerator, denominator>> of a year: NaN outside [x[0], x[-1]], and at a
\* data point x[k] the value y[k].  On two data points the interpolant is the
\* straight line through them, which is evaluated at every u.  On more data
\* points the arguments the model follows are the data points and those
\* outside the interpolator's domain.
interpolated(interpolator, u) ==
    IF u < interpolator.x[1] \/ u > interpolator.x[Len(interpolator.x)]
    THEN NaN
    ELSE IF \E k \in DOMAIN interpolator.x : interpolator.x[k] = u
    THEN <<interpolator.y[CHOOSE k \in DOMAIN interpolator.x : interpolator.x[k] = u], 1>>
    ELSE <<interpolator.y[1] * (interpolator.x[2] - interpolator.x[1])
               + (interpolator.y[2] - interpolator.y[1]) * (u - interpolator.x[1]),
           interpolator.x[2] - interpolator.x[1]>>

\* The arguments of the interpolant followed for a curve: each of its
\* probabilities, the one just below its lowest one, 0 and the anchor 1.0; for
\* a curve of one item, every hundredth.  random.random() draws from [0, 1).
SurvivalDraws(survival_probabilities) ==
    IF Len(survival_probabilities) = 1
    THEN 0..100
    ELSE {0, 100}
             \cup {survival_probabilities[k][2] : k \in DOMAIN survival_probabilities}
             \cup {survival_probabilities[k][2] - 1 : k \in {Len(survival_probabilities)}}

ProbeDiagnosisDates == Date(2020, 1, 10)..Date(2020, 1, 25)

InitSurvival ==
    /\ sim_params = NoProbe
    /\ cohort = <<>>
    /\ pc = "probe"
    /\ assessment_date = None
    /\ cycles = 0
    /\ error = "none"
    /\ violations = <<>>
    /\ cohort_df = <<>>
    /\ probe \in UNION { { [fn |-> "determine_death_date",
                            at |-> "args",
                            diagnosis_date |-> d,
                            survival_probabilities |-> curve,
                            u |-> u,
                            year_delta |-> NaN,
                            death_date |-> None] :
                           d \in ProbeDiagnosisDates, u \in SurvivalDraws(curve) } :
                         curve \in SurvivalCurves }

\* year_delta = interpolated([random.random()])[0]
Interpolate ==
    /\ probe.fn = "determine_death_date"
    /\ probe.at = "args"
    /\ probe' = [probe EXCEPT
                   !.at = "interpolated",
                   !.year_delta =
                       interpolated(_get_interpolator(Keys(probe.survival_probabilities),
                                                      Values(probe.survival_probabilities)),
                                    probe.u)]
    /\ UNCHANGED <<sim_params, cohort, pc, assessment_date, cycles, error,
                   violations, cohort_df>>

\* if isnan(year_delta): return None; return diagnosis_date + timedelta(...)
ReturnDeathDate ==
    /\ probe.fn = "determine_death_date"
    /\ probe.at = "interpolated"
    /\ probe' = [probe EXCEPT
                   !.at = "returned",
                   !.death_date = determine_death_date(probe.diagnosis_date,
                                                       probe.year_delta)]
    /\ UNCHANGED <<sim_params, cohort, pc, assessment_date, cycles, error,
                   violations, cohort_df>>

NextSurvival ==
    \/ Interpolate
    \/ ReturnDeathDate

SpecSurvival == InitSurvival /\ [][NextSurvival]_vars

-----------------------------------------------------------------------------
(* ExportScheduler: is_event_exported as a pure function *)

is_event_exported_before(event_date, event_date_exported, export_date) ==
    IF event_date = None THEN TRUE
    ELSE IF event_date_exported = None THEN FALSE
    ELSE event_date_exported[1] < export_date

is_event_exported(event_date, event_date_exported, export_date) ==
    IF event_date = None THEN TRUE
    ELSE IF event_date_exported = None THEN FALSE
    ELSE event_date_exported[1] <= export_date

ProbeAsOfDates == Date(2020, 1, 30)..Date(2020, 2, 3)

InitIsExported ==
    /\ sim_params = NoProbe
    /\ cohort = <<>>
    /\ pc = "probe"
    /\ assessment_date = None
    /\ cycles = 0
    /\ error = "none"
    /\ violations = <<>>
    /\ cohort_df = <<>>
    /\ probe \in { [fn |-> "is_event_exported",
                    at |-> "args",
                    event_date |-> e,
                    event_date_exported |-> x,
                    export_date |-> d,
                    result |-> FALSE] :
                   e \in {None} \cup {Some(n) : n \in ProbeAsOfDates},
                   x \in {None} \cup {Some(n) : n \in ProbeAsOfDates},
                   d \in ProbeAsOfDates }

\* result = is_event_exported(event_date, event_date_exported, export_date)
IsEventExported ==
    /\ probe.fn = "is_event_exported"
    /\ probe.at = "args"
    /\ probe' = [probe EXCEPT
                   !.at = "returned",
                   !.result = is_event_exported(probe.event_date,
                                                probe.event_date_exported,
                                                probe.export_date)]
    /\ UNCHANGED <<sim_params, cohort, pc, assessment_date, cycles, error,
                   violations, cohort_df>>

NextIsExported == IsEventExported

SpecIsExported == InitIsExported /\ [][NextIsExported]_vars

-----------------------------------------------------------------------------
(* simutils: the probability helpers as pure functions.  A dict[int, float]  *)
(* is the sequence of its <<key, value>> items in insertion order, a given   *)
(* probability is a number of hundredths, and a computed probability is a    *)
(* fraction <<numerator, denominator>> of hundredths.                        *)

\* The first values of np.random.rand after np.random.seed(42), in
\* ten-thousandths.
Rand42 == <<3745, 9507, 7320, 5987, 1560, 1560, 581, 8662, 6011, 7081>>

RECURSIVE SumUpTo(_, _)
\* sum(seq[:n])
SumUpTo(seq, n) == IF n = 0 THEN 0 ELSE SumUpTo(seq, n - 1) + seq[n]

calculate_probabilities_over_period_raises_unchecked_end(start_year, observation_period, probability_range) ==
    IF observation_period < 1 THEN "ValueError"
    ELSE IF probability_range[1] < 0 \/ probability_range[1] > 100 THEN "ValueError"
    ELSE IF SumUpTo(Rand42, observation_period - 1) = 0 THEN "ZeroDivisionError"
    ELSE "none"

\* The exception calculate_probabilities_over_period raises, or "none": the
\* three ValueErrors of its checks, and the ZeroDivisionError of
\* total_change / sum(increments) when increments is empty.
calculate_probabilities_over_period_raises(start_year, observation_period, probability_range) ==
    IF observation_period < 1 THEN "ValueError"
    ELSE IF probability_range[1] < 0 \/ probability_range[1] > 100 THEN "ValueError"
    ELSE IF probability_range[2] < 0 \/ probability_range[2] > 100 THEN "ValueError"
    ELSE IF SumUpTo(Rand42, observation_period - 1) = 0 THEN "ZeroDivisionError"
    ELSE "none"

\* calculate_probabilities_over_period when it returns: the increments are
\* scaled to sum to total_change, accumulated from start_prob, and the last
\* probability is replaced by end_prob.
calculate_probabilities_over_period(start_year, observation_period, probability_range) ==
    LET start_prob == probability_range[1]
        end_prob == probability_range[2]
        total_change == end_prob - start_prob
        den == SumUpTo(Rand42, observation_period - 1)
    IN  [k \in 1..observation_period |->
            <<start_year + k - 1,
              IF k = observation_period
              THEN <<end_prob * den, den>>
              ELSE <<start_prob * den + total_change * SumUpTo(Rand42, k - 1), den>> >>]

\* normalize_probabilities: the exception it raises, or "none".
normalize_probabilities_raises(probabilities) ==
    IF Len(probabilities) < 1 THEN "ValueError"
    ELSE IF SumUpTo(Values(probabilities), Len(probabilities)) = 0 THEN "ZeroDivisionError"
    ELSE "none"

normalize_probabilities(probabilities) ==
    LET total_prob == SumUpTo(Values(probabilities), Len(probabilities))
    IN  [k \in 1..Len(probabilities) |-> <<probabilities[k][2], total_prob>>]

\* key in dict, dict[key], sorted(dict.keys())
HasKey(dict, key) == \E k \in DOMAIN dict : dict[k][1] = key

Get(dict, key) == dict[CHOOSE k \in DOMAIN dict : dict[k][1] = key][2]

KeySet(dict) == {dict[k][1] : k \in DOMAIN dict}

SetMin(set) == CHOOSE m \in set : \A other \in set : m <= other

SetMax(set) == CHOOSE m \in set : \A other \in set : m >= other

calculate_missing_probabilities_raises(survival_dict, observation_period) ==
    IF Len(survival_dict) = 0 THEN "ValueError"
    ELSE IF observation_period < 1 THEN "ValueError"
    ELSE "none"

MissingProbability_last_value(survival_dict, year) ==
    LET sorted_years == KeySet(survival_dict)
        last_year == SetMax(sorted_years)
    IN  IF year < last_year
        THEN LET lower_year == SetMax({y \in sorted_years : y < year})
                 upper_year == SetMin({y \in sorted_years : y > year})
             IN  <<Get(survival_dict, lower_year) * (upper_year - lower_year)
                       + (Get(survival_dict, upper_year) - Get(survival_dict, lower_year))
                             * (year - lower_year),
                   upper_year - lower_year>>
        ELSE <<Get(survival_dict, last_year), 1>>

\* The value calculate_missing_probabilities gives a year that is not
\* provided: survival_dict[lower_year] + slope * (year - lower_year) between
\* provided years, survival_dict[last_year] + slope * (year - last_year)
\* beyond them, over the denominator of the slope.
MissingProbability(survival_dict, year) ==
    LET sorted_years == KeySet(survival_dict)
        last_year == SetMax(sorted_years)
    IN  IF year < last_year
        THEN LET lower_year == SetMax({y \in sorted_years : y < year})
                 upper_year == SetMin({y \in sorted_years : y > year})
             IN  <<Get(survival_dict, lower_year) * (upper_year - lower_year)
                       + (Get(survival_dict, upper_year) - Get(survival_dict, lower_year))
                             * (year - lower_year),
                   upper_year - lower_year>>
        ELSE IF Cardinality(sorted_years) >= 2
        THEN LET second_last_year == SetMax(sorted_years \ {last_year})
             IN  <<Get(survival_dict, last_year) * (last_year - second_last_year)
                       + (Get(survival_dict, last_year)
                              - Get(survival_dict, second_last_year))
                             * (year - last_year),
                   last_year - second_last_year>>
        ELSE <<Get(survival_dict, last_year), 1>>

\* calculate_missing_probabilities when it returns: one item per year of
\* range(sorted_years[0], observation_period + 1).
calculate_missing_probabilities(survival_dict, observation_period) ==
    LET first_year == SetMin(KeySet(survival_dict))
        count == IF observation_period + 1 > first_year
                 THEN observation_period + 1 - first_year ELSE 0
    IN  [k \in 1..count |->
            LET year == first_year + k - 1
            IN  <<year,
                  IF HasKey(survival_dict, year)
                  THEN <<Get(survival_dict, year), 1>>
                  ELSE MissingProbability(survival_dict, year)>>]

ProbeProbabilities == {-10, 0, 10, 50, 90, 100, 110}

ProbeDicts ==
    { <<>>,
      << <<1, 50>> >>,
      << <<1, 0>> >>,
      << <<1, 30>>, <<2, 50>>, <<3, 20>> >>,
      << <<1, 85>>, <<3, 45>>, <<5, 32>> >>,
      << <<4, 10>>, <<2, 50>> >>,
      << <<7, 20>> >> }

SimutilsProbe(fn, start_year, observation_period, probability_range, dict) ==
    [fn |-> fn,
     at |-> "args",
     start_year |-> start_year,
     observation_period |-> observation_period,
     probability_range |-> probability_range,
     dict |-> dict,
     raised |-> "none",
     result |-> <<>>]

InitSimutils ==
    /\ sim_params = NoProbe
    /\ cohort = <<>>
    /\ pc = "probe"
    /\ assessment_date = None
    /\ cycles = 0
    /\ error = "none"
    /\ violations = <<>>
    /\ cohort_df = <<>>
    /\ probe \in
         { SimutilsProbe("calculate_probabilities_over_period", 2020, n, <<a, b>>, <<>>) :
             n \in 0..MaxPeriod, a \in ProbeProbabilities, b \in ProbeProbabilities }
         \cup
         { SimutilsProbe("calculate_missing_probabilities", 0, n, <<0, 0>>, d) :
             n \in 0..(2 * MaxPeriod), d \in ProbeDicts }
         \cup
         { SimutilsProbe("normalize_probabilities", 0, 0, <<0, 0>>, d) : d \in ProbeDicts }

CalculateProbabilitiesOverPeriod ==
    /\ probe.fn = "calculate_probabilities_over_period"
    /\ probe.at = "args"
    /\ LET raised == calculate_probabilities_over_period_raises(
                         probe.start_year, probe.observation_period, probe.probability_range)
       IN  IF raised # "none"
           THEN probe' = [probe EXCEPT !.at = "returned", !.raised = raised]
           ELSE probe' = [probe EXCEPT
                            !.at = "returned",
                            !.result = calculate_probabilities_over_period(
                                           probe.start_year, probe.observation_period,
                                           probe.probability_range)]
    /\ UNCHANGED <<sim_params, cohort, pc, assessment_date, cycles, error,
                   violations, cohort_df>>

CalculateMissingProbabilities ==
    /\ probe.fn = "calculate_missing_probabilities"
    /\ probe.at = "args"
    /\ LET raised == calculate_missing_probabilities_raises(probe.dict,
                                                            probe.observation_period)
       IN  IF raised # "none"
           THEN probe' = [probe EXCEPT !.at = "returned", !.raised = raised]
           ELSE probe' = [probe EXCEPT
                            !.at = "returned",
                            !.result = calculate_missing_probabilities(
                                           probe.dict, probe.observation_period)]
    /\ UNCHANGED <<sim_params, cohort, pc, assessment_date, cycles, error,
                   violations, cohort_df>>

NormalizeProbabilities ==
    /\ probe.fn = "normalize_probabilities"
    /\ probe.at = "args"
    /\ LET raised == normalize_probabilities_raises(probe.dict)
       IN  IF raised # "none"
           THEN probe' = [probe EXCEPT !.at = "returned", !.raised = raised]
           ELSE probe' = [probe EXCEPT
                            !.at = "returned",
                            !.result = normalize_probabilities(probe.dict)]
    /\ UNCHANGED <<sim_params, cohort, pc, assessment_date, cycles, error,
                   violations, cohort_df>>

NextSimutils ==
    \/ CalculateProbabilitiesOverPeriod
    \/ CalculateMissingProbabilities
    \/ NormalizeProbabilities

SpecSimutils == InitSimutils /\ [][NextSimutils]_vars

-----------------------------------------------------------------------------
(* The interpolant _get_interpolator builds, evaluated at two arguments.      *)

InitInterpolant ==
    /\ sim_params = NoProbe
    /\ cohort = <<>>
    /\ pc = "probe"
    /\ assessment_date = None
    /\ cycles = 0
    /\ error = "none"
    /\ violations = <<>>
    /\ cohort_df = <<>>
    /\ probe \in UNION { { [fn |-> "_get_interpolator",
                            at |-> "args",
                            survival_probabilities |-> curve,
                            lower_u |-> draws[1],
                            upper_u |-> draws[2],
                            lower_year_delta |-> NaN,
                            upper_year_delta |-> NaN] :
                           draws \in {pair \in SurvivalDraws(curve) \X SurvivalDraws(curve) :
                                         pair[1] <= pair[2]} } :
                         curve \in SurvivalCurves }

\* interpolated = _get_interpolator(keys, values); interpolated([u])[0]
InterpolateBoth ==
    /\ probe.fn = "_get_interpolator"
    /\ probe.at = "args"
    /\ LET interpolator == _get_interpolator(Keys(probe.survival_probabilities),
                                             Values(probe.survival_probabilities))
       IN  probe' = [probe EXCEPT
                       !.at = "returned",
                       !.lower_year_delta = interpolated(interpolator, probe.lower_u),
                       !.upper_year_delta = interpolated(interpolator, probe.upper_u)]
    /\ UNCHANGED <<sim_params, cohort, pc, assessment_date, cycles, error,
                   violations, cohort_df>>

NextInterpolant == InterpolateBoth

SpecInterpolant == InitInterpolant /\ [][NextInterpolant]_vars

-----------------------------------------------------------------------------
(* calculate_exported_date applied to two event dates under one study start  *)
(* and one cadence of at least a month.                                       *)

InitExportOrder ==
    /\ sim_params = NoProbe
    /\ cohort = <<>>
    /\ pc = "probe"
    /\ assessment_date = None
    /\ cycles = 0
    /\ error = "none"
    /\ violations = <<>>
    /\ cohort_df = <<>>
    /\ probe \in { [fn |-> "calculate_exported_date",
                    at |-> "args",
                    earlier_event_date |-> Some(dates[1]),
                    later_event_date |-> Some(dates[2]),
                    study_start_date |-> s,
                    db_update_frequency_in_months |-> c,
                    earlier_exported_date |-> None,
                    later_exported_date |-> None] :
                   dates \in {pair \in ProbeEventDates \X ProbeEventDates :
                                 pair[1] <= pair[2]},
                   s \in ProbeStudyStarts,
                   c \in 1..(MaxCadence + 1) }

ExportBoth ==
    /\ probe.fn = "calculate_exported_date"
    /\ probe.at = "args"
    /\ probe' = [probe EXCEPT
                   !.at = "exported",
                   !.earlier_exported_date =
                       calculate_exported_date(probe.earlier_event_date,
                                               probe.study_start_date,
                                               probe.db_update_frequency_in_months),
                   !.later_exported_date =
                       calculate_exported_date(probe.later_event_date,
                                               probe.study_start_date,
                                               probe.db_update_frequency_in_months)]
    /\ UNCHANGED <<sim_params, cohort, pc, assessment_date, cycles, error,
                   violations, cohort_df>>

NextExportOrder == ExportBoth

SpecExportOrder == InitExportOrder /\ [][NextExportOrder]_vars

-----------------------------------------------------------------------------
(* sanity_check_patient_records as a pure function of a list of patients     *)
(* whose dates are set or unset independently of each other.                 *)

ProbeRecordDates == {None, Some(Date(2020, 2, 1)), Some(Date(2020, 2, 2))}

\* A patient that passes every check.
ConsistentPatient ==
    [patient_id |-> 1,
     drug |-> DrugA,
     diagnosis_date |-> Some(Date(2020, 2, 1)),
     drug_date |-> None,
     death_date |-> None,
     death_date_recorded |-> None,
     diagnosis_date_exported |-> Some(Date(2020, 2, 1)),
     drug_date_exported |-> None,
     death_date_exported |-> None,
     diagnosis_date_abstracted |-> Some(Date(2020, 2, 2)),
     drug_date_abstracted |-> None,
     death_date_abstracted |-> None]

ProbePatients ==
    { [ConsistentPatient EXCEPT
           !.patient_id = 2,
           !.diagnosis_date = dates[1],
           !.drug_date = dates[2],
           !.death_date = dates[3],
           !.death_date_recorded = dates[4],
           !.diagnosis_date_exported = dates[5],
           !.drug_date_exported = dates[6],
           !.death_date_exported = dates[7],
           !.diagnosis_date_abstracted = dates[8],
           !.drug_date_abstracted = dates[9],
           !.death_date_abstracted = dates[10]] :
        dates \in [1..10 -> ProbeRecordDates] }

InitSanity ==
    /\ sim_params = NoProbe
    /\ cohort = <<>>
    /\ pc = "probe"
    /\ assessment_date = None
    /\ cycles = 0
    /\ error = "none"
    /\ violations = <<>>
    /\ cohort_df = <<>>
    /\ probe \in { [fn |-> "sanity_check_patient_records",
                    at |-> "args",
                    patients |-> patients,
                    raised |-> <<>>] :
                   patients \in {<<patient>> : patient \in ProbePatients}
                                    \cup {<<ConsistentPatient, patient>> :
                                             patient \in ProbePatients} }

SanityCheckPatientRecords ==
    /\ probe.fn = "sanity_check_patient_records"
    /\ probe.at = "args"
    /\ probe' = [probe EXCEPT !.at = "returned",
                              !.raised = sanity_check_patient_records(probe.patients)]
    /\ UNCHANGED <<sim_params, cohort, pc, assessment_date, cycles, error,
                   violations, cohort_df>>

NextSanity == SanityCheckPatientRecords

SpecSanity == InitSanity /\ [][NextSanity]_vars

-----------------------------------------------------------------------------
(* Properties of the run *)

Patients == 1..Len(cohort)

EventNames == {Events[k] : k \in DOMAIN Events}

Occurred(patient, event_name) == patient[event_name \o "_date"]

Exported(patient, event_name) == patient[event_name \o "_date_exported"]

Abstracted(patient, event_name) == patient[event_name \o "_date_abstracted"]

\* lo <= hi for optional dates, true when either is unset.
Ordered(lo, hi) == (lo # None /\ hi # None) => lo[1] <= hi[1]

InAbstractionLoop == pc = "abstracting"

\* C1: generate_abstracted_dates always ends, by returning or by raising a
\* convergence error: every iteration that stays in the loop can change the
\* state (the loop does not spin on one state), and an exception that ends it
\* is the convergence error.
C1_TerminatesOrConvergenceError ==
    /\ InAbstractionLoop => ENABLED <<AbstractionExit \/ AbstractionCycle>>_vars
    /\ pc = "abstraction_raised" => error = "ConvergenceError"

\* C2: in every state of a run, for every patient and event, exported >=
\* occurred and abstracted >= exported wherever both are set, and for death
\* occurred <= recorded <= exported.
C2_StagesOrdered ==
    \A i \in Patients :
        /\ \A e \in EventNames :
             /\ Ordered(Occurred(cohort[i], e), Exported(cohort[i], e))
             /\ Ordered(Exported(cohort[i], e), Abstracted(cohort[i], e))
        /\ Ordered(cohort[i].death_date, cohort[i].death_date_recorded)
        /\ Ordered(cohort[i].death_date_recorded, cohort[i].death_date_exported)

\* C3: in every state of a run no later-stage date is set while its
\* predecessor is unset: abstracted needs exported, exported needs the
\* occurred date (for death the recorded date), recorded needs death occurred.
C3_NoStageSkipped ==
    \A i \in Patients :
        /\ \A e \in EventNames :
             Abstracted(cohort[i], e) # None => Exported(cohort[i], e) # None
        /\ cohort[i].diagnosis_date_exported # None => cohort[i].diagnosis_date # None
        /\ cohort[i].drug_date_exported # None => cohort[i].drug_date # None
        /\ cohort[i].death_date_exported # None => cohort[i].death_date_recorded # None
        /\ cohort[i].death_date_recorded # None => cohort[i].death_date # None

\* A run past the export stage in which a patient has an untreated, recorded
\* death and every stage of its diagnosis set.
C3_Witness ==
    /\ pc = "returned"
    /\ \E i \in Patients :
         /\ cohort[i].drug_date = None
         /\ cohort[i].drug_date_exported = None
         /\ cohort[i].death_date_exported # None
         /\ cohort[i].death_date_abstracted # None
         /\ cohort[i].diagnosis_date_abstracted # None

\* C4: when generate_abstracted_dates returns under a positive throughput,
\* every event that has an exported date has an abstracted date.
C4_ReturnsConverged ==
    (/\ pc = "returned"
     /\ sim_params.patients_abstracted_per_month
            * sim_params.db_update_frequency_in_months >= 1)
    => \A i \in Patients :
           /\ \A e \in EventNames :
                Exported(cohort[i], e) # None => Abstracted(cohort[i], e) # None
           /\ is_patient_fully_abstracted(cohort[i])

\* The patients that receive at least one new abstracted date in a step.
NewlyAbstracted ==
    {i \in Patients :
        \E e \in EventNames :
            Abstracted(cohort[i], e) = None /\ Abstracted(cohort'[i], e) # None}

\* The patients with an event exported by date d and not abstracted.
AbstractableAt(d) ==
    {i \in Patients :
        \E e \in EventNames :
            /\ Exported(cohort[i], e) # None
            /\ Exported(cohort[i], e)[1] <= d
            /\ Abstracted(cohort[i], e) = None}

\* C5: in each abstraction cycle the number of patients that receive at least
\* one new abstracted date is exactly min(patients_abstracted_per_month x
\* db_update_frequency_in_months, number of abstractable patients at the
\* cycle's assessment date), and so never exceeds the throughput cap.
C5_ThroughputCap ==
    [][InAbstractionLoop =>
          /\ Cardinality(NewlyAbstracted) =
                 Min(sim_params.patients_abstracted_per_month
                         * sim_params.db_update_frequency_in_months,
                     Cardinality(AbstractableAt(assessment_date[1])))
          /\ Cardinality(NewlyAbstracted) <=
                 sim_params.patients_abstracted_per_month
                     * sim_params.db_update_frequency_in_months]_vars

\* After the first cycle of a run with a cap of one patient per cycle, one
\* patient has been abstracted and another, abstractable at that cycle's
\* assessment date, has been left for a later cycle.
C5_Witness ==
    /\ InAbstractionLoop
    /\ cycles = 1
    /\ sim_params.patients_abstracted_per_month
           * sim_params.db_update_frequency_in_months = 1
    /\ \E i, j \in Patients :
         /\ i # j
         /\ cohort[i].diagnosis_date_abstracted # None
         /\ cohort[j].diagnosis_date_abstracted = None
         /\ cohort[j].diagnosis_date_exported = cohort[i].diagnosis_date_exported

\* C6: whenever an event has an abstracted date, abstracted - exported lies in
\* that event's configured abstraction-latency range (bounds inclusive),
\* whatever the cycle in which the patient was selected.
C6_LatencyInRange ==
    \A i \in Patients :
        \A e \in EventNames :
            Abstracted(cohort[i], e) # None =>
                /\ Exported(cohort[i], e) # None
                /\ Abstracted(cohort[i], e)[1] - Exported(cohort[i], e)[1]
                       \in sim_params[e \o "_date_abstraction_latency_range"][1]
                           ..sim_params[e \o "_date_abstraction_latency_range"][2]

\* Two patients whose deaths were exported on the same date under a cap of
\* one patient per cycle, so that one of them waited a cycle in the backlog;
\* both deaths are abstracted, with the two ends of the latency range.
C6_Witness ==
    /\ pc = "returned"
    /\ sim_params.patients_abstracted_per_month
           * sim_params.db_update_frequency_in_months = 1
    /\ sim_params.death_date_abstraction_latency_range = <<0, 1>>
    /\ \E i, j \in Patients :
         /\ i # j
         /\ cohort[i].death_date_exported # None
         /\ cohort[i].death_date_exported = cohort[j].death_date_exported
         /\ cohort[i].diagnosis_date_exported = cohort[j].diagnosis_date_exported
         /\ cohort[i].death_date_abstracted = cohort[i].death_date_exported
         /\ cohort[j].death_date_abstracted =
                Some(cohort[j].death_date_exported[1] + 1)

-----------------------------------------------------------------------------
(* Properties of calculate_exported_date *)

\* calculate_exported_date has returned for the probe's event date.
ExportReturned ==
    /\ probe.fn = "calculate_exported_date"
    /\ probe.at \in {"exported", "reexported"}
    /\ probe.exported_date # None

\* The first day of the month with the given month index.
FirstOfMonth(month_index) == Date(month_index \div 12, (month_index % 12) + 1, 1)

\* The earliest month strictly after the event's month whose offset from
\* study_start's month is a multiple of the cadence c >= 1.
NextBoundaryMonth(event, study_start, c) ==
    CHOOSE k \in (MonthIndex(event) + 1)..(MonthIndex(event) + c) :
        /\ (k - MonthIndex(study_start)) % c = 0
        /\ \A j \in (MonthIndex(event) + 1)..(k - 1) :
               (j - MonthIndex(study_start)) % c # 0

\* C7: for an event date on or after study_start and a cadence c >= 1,
\* calculate_exported_date returns the first day of the earliest month strictly
\* later than the event's month whose month offset from study_start's month is
\* a multiple of c; the result is strictly after the event date, and
\* study_start 2020-01-01, c = 3, event 2020-02-15 gives 2020-04-01.
C7_NextBoundaryAfterEvent ==
    (/\ ExportReturned
     /\ probe.event_date[1] >= probe.study_start_date
     /\ probe.db_update_frequency_in_months >= 1)
    => /\ probe.exported_date =
              Some(FirstOfMonth(NextBoundaryMonth(probe.event_date[1],
                                                  probe.study_start_date,
                                                  probe.db_update_frequency_in_months)))
       /\ probe.exported_date[1] > probe.event_date[1]
       /\ (/\ probe.event_date = Some(Date(2020, 2, 15))
           /\ probe.study_start_date = Date(2020, 1, 1)
           /\ probe.db_update_frequency_in_months = 3)
          => probe.exported_date = Some(Date(2020, 4, 1))

\* The example of the claim has been computed.
C7_Witness ==
    /\ ExportReturned
    /\ probe.event_date = Some(Date(2020, 2, 15))
    /\ probe.study_start_date = Date(2020, 1, 1)
    /\ probe.db_update_frequency_in_months = 3
    /\ probe.exported_date = Some(Date(2020, 4, 1))

\* C8: for every event date before study_start, calculate_exported_date
\* returns the first day of the month c months after study_start's month,
\* whatever the event date.
C8_BeforeStudyStart ==
    (/\ ExportReturned
     /\ probe.event_date[1] < probe.study_start_date)
    => probe.exported_date =
           Some(FirstOfMonth(MonthIndex(probe.study_start_date)
                                 + probe.db_update_frequency_in_months))

\* An event more than a month before a mid-month study_start has been exported.
C8_Witness ==
    /\ ExportReturned
    /\ probe.event_date = Some(Date(2019, 12, 1))
    /\ probe.study_start_date = Date(2020, 1, 15)
    /\ probe.db_update_frequency_in_months = 2
    /\ probe.exported_date = Some(Date(2020, 3, 1))

\* calculate_exported_date has returned for its own output.
ReexportReturned ==
    /\ probe.fn = "calculate_exported_date"
    /\ probe.at = "reexported"
    /\ ~probe.raised
    /\ probe.exported_date # None

\* C9 as claimed: calculate_exported_date applied to an export date E it
\* returned, with the same study_start and cadence, returns E.
C9_Idempotent ==
    ReexportReturned => probe.reexported_date = probe.exported_date

\* C9 amended: for a cadence c >= 1, calculate_exported_date applied to an
\* export date E it returned, with the same study_start and cadence, returns
\* the next boundary, the first day of the month c months after E's month,
\* which is later than E.
C9_ReexportAdvancesOneCadence ==
    (/\ ReexportReturned
     /\ probe.db_update_frequency_in_months >= 1)
    => /\ probe.reexported_date =
              Some(FirstOfMonth(MonthIndex(probe.exported_date[1])
                                    + probe.db_update_frequency_in_months))
       /\ probe.reexported_date[1] > probe.exported_date[1]

\* The export date 2020-04-01 of the event 2020-02-15 has been reassessed and
\* has moved to 2020-07-01.
C9_Witness ==
    /\ ReexportReturned
    /\ probe.event_date = Some(Date(2020, 2, 15))
    /\ probe.study_start_date = Date(2020, 1, 1)
    /\ probe.db_update_frequency_in_months = 3
    /\ probe.exported_date = Some(Date(2020, 4, 1))
    /\ probe.reexported_date = Some(Date(2020, 7, 1))

-----------------------------------------------------------------------------
(* Properties of generate_exported_dates *)

\* generate_exported_dates has returned.
ExportStageDone ==
    pc \in {"exported", "abstracting", "returned", "abstraction_raised",
            "checked", "done", "table_raised"}

\* C10: after generate_exported_dates, for every patient the diagnosis and
\* drug exported dates are set iff the diagnosis resp. drug date is set, the
\* death exported date is set iff the death recorded date is set and is the
\* export date of the death recorded date, and an unset event date has an
\* unset exported date.
C10_ExportedIffOccurred ==
    ExportStageDone =>
        \A i \in Patients :
            /\ cohort[i].diagnosis_date_exported # None <=> cohort[i].diagnosis_date # None
            /\ cohort[i].drug_date_exported # None <=> cohort[i].drug_date # None
            /\ cohort[i].death_date_exported # None <=> cohort[i].death_date_recorded # None
            /\ cohort[i].death_date_exported =
                   calculate_exported_date(cohort[i].death_date_recorded,
                                           sim_params.study_start_date,
                                           sim_params.db_update_frequency_in_months)

\* The export stage has run on a cohort with an untreated patient and with a
\* death recorded in the month after it occurred, so that the export date of
\* the death date differs from that of the recorded date.
C10_Witness ==
    /\ pc = "exported"
    /\ \E i \in Patients :
         /\ cohort[i].drug_date = None
         /\ cohort[i].drug_date_exported = None
    /\ \E i \in Patients :
         /\ cohort[i].death_date_exported # None
         /\ cohort[i].death_date_exported #
                calculate_exported_date(cohort[i].death_date,
                                        sim_params.study_start_date,
                                        sim_params.db_update_frequency_in_months)


-----------------------------------------------------------------------------
(* Properties of the zero-latency scenario *)

\* generate_abstracted_dates has returned to run_simulation.
AbstractionReturned == pc \in {"returned", "checked", "done", "table_raised"}

\* The capacity of a cycle covers the whole cohort and every latency range of
\* the configuration is (0, 0).
ZeroLatencyScenario ==
    /\ sim_params.patients_abstracted_per_month
           * sim_params.db_update_frequency_in_months >= sim_params.cohort_size
    /\ sim_params.death_date_recording_latency_range = <<0, 0>>
    /\ \A e \in EventNames : sim_params[e \o "_date_abstraction_latency_range"] = <<0, 0>>

\* C11: in the zero-latency scenario, when the abstraction has ended every
\* exported event is abstracted with abstracted = exported, and no patient has
\* an unset diagnosis_date_abstracted.
C11_ZeroLatencyAllAbstracted ==
    (AbstractionReturned /\ ZeroLatencyScenario) =>
        \A i \in Patients :
            /\ cohort[i].diagnosis_date_abstracted # None
            /\ \A e \in EventNames :
                 Exported(cohort[i], e) # None =>
                     Abstracted(cohort[i], e) = Exported(cohort[i], e)


-----------------------------------------------------------------------------
(* Properties of generate_patient_cohort *)

\* generate_patient_cohort has returned.
CohortGenerated == pc # "start"

\* C12: for every generated patient, death_date_recorded is set iff death_date
\* is set; when set, death_date_recorded >= death_date and death_date_recorded
\* - death_date lies in death_date_recording_latency_range, bounds inclusive.
C12_DeathRecordedAfterDeath ==
    \A i \in Patients :
        /\ cohort[i].death_date_recorded # None <=> cohort[i].death_date # None
        /\ cohort[i].death_date # None =>
             /\ cohort[i].death_date_recorded[1] >= cohort[i].death_date[1]
             /\ cohort[i].death_date_recorded[1] - cohort[i].death_date[1]
                    \in sim_params.death_date_recording_latency_range[1]
                        ..sim_params.death_date_recording_latency_range[2]

\* C13: for every generated patient the diagnosis date is set and lies in the
\* half-open window [observation_start_date, observation_end_date).
C13_DiagnosisInWindow ==
    \A i \in Patients :
        /\ cohort[i].diagnosis_date # None
        /\ sim_params.observation_start_date <= cohort[i].diagnosis_date[1]
        /\ cohort[i].diagnosis_date[1] < sim_params.observation_end_date

\* A cohort with a patient diagnosed on the first day of the window and a
\* patient diagnosed on its last day, the day before observation_end_date.
C13_Witness ==
    /\ CohortGenerated
    /\ \E i, j \in Patients :
         /\ cohort[i].diagnosis_date = Some(sim_params.observation_start_date)
         /\ cohort[j].diagnosis_date = Some(sim_params.observation_end_date - 1)

\* C14: every patient's drug_date is determine_treatment_date's answer for an
\* integer offset in the drug's start_date_range (bounds inclusive, possibly
\* negative): diagnosis_date + offset when death_date is unset or that date is
\* strictly before death_date, unset otherwise; hence drug_date < death_date
\* wherever both are set.
C14_TreatmentBeforeDeath ==
    \A i \in Patients :
        /\ \E offset \in cohort[i].drug.start_date_range[1]
                             ..cohort[i].drug.start_date_range[2] :
             LET treatment_date == cohort[i].diagnosis_date[1] + offset
             IN  IF \/ cohort[i].death_date = None
                    \/ treatment_date < cohort[i].death_date[1]
                 THEN cohort[i].drug_date = Some(treatment_date)
                 ELSE cohort[i].drug_date = None
        /\ (cohort[i].drug_date # None /\ cohort[i].death_date # None) =>
               cohort[i].drug_date[1] < cohort[i].death_date[1]

\* A cohort with a patient treated on the day before death and a patient whose
\* drawn treatment date fell on the day of death, and who is untreated.
C14_Witness ==
    /\ CohortGenerated
    /\ \E i, j \in Patients :
         /\ cohort[i].death_date # None
         /\ cohort[i].drug_date = Some(cohort[i].death_date[1] - 1)
         /\ cohort[j].death_date # None
         /\ cohort[j].drug_date = None
         /\ cohort[j].diagnosis_date[1] + cohort[j].drug.start_date_range[2]
                = cohort[j].death_date[1]

\* C15: generate_patient_cohort returns exactly cohort_size patients whose ids
\* are 1..N in generation order, each with the three exported dates and the
\* three abstracted dates unset.
C15_CohortSizeAndIds ==
    /\ CohortGenerated =>
         /\ Len(cohort) = sim_params.cohort_size
         /\ \A i \in Patients : cohort[i].patient_id = i
    /\ pc = "generated" =>
         \A i \in Patients :
             \A e \in EventNames :
                 /\ Exported(cohort[i], e) = None
                 /\ Abstracted(cohort[i], e) = None

\* generate_patient_cohort has returned a cohort of more than one patient.
C15_Witness ==
    /\ pc = "generated"
    /\ Len(cohort) >= 2
    /\ cohort[1].patient_id = 1
    /\ cohort[2].patient_id = 2


-----------------------------------------------------------------------------
(* Properties of the configuration *)

\* The invalid configurations the model's SimParams can express: a
\* non-positive export cadence and a zero-length observation window (the
\* model's Drug records carry no survival curve).
InvalidConfiguration ==
    \/ sim_params.db_update_frequency_in_months <= 0
    \/ sim_params.observation_end_date = sim_params.observation_start_date

\* C16: a run with an invalid configuration is rejected with a configuration
\* error before the simulation starts: it never leaves its start without that
\* error, and no patient is generated.
C16_InvalidConfigRejected ==
    InvalidConfiguration =>
        /\ pc = "start" \/ error = "ConfigurationError"
        /\ cohort = <<>>

-----------------------------------------------------------------------------
(* Properties of the consistency check and of the output table *)

\* The <<patient index, check number>> pairs of the checks that fail on the
\* cohort.
FailingChecks ==
    {ik \in Patients \X DOMAIN SanityChecks : FailsCheck(cohort[ik[1]], ik[2])}

\* The rows of the table are the patients of the cohort, each exactly once.
OneRowPerPatient ==
    /\ Len(cohort_df) = Len(cohort)
    /\ \A i \in Patients :
         Cardinality({k \in 1..Len(cohort_df) : cohort_df[k].patient_id = i}) = 1
    /\ \A k \in 1..Len(cohort_df) : cohort_df[k] = cohort[cohort_df[k].patient_id]

\* C17: a consistency violation does not abort the run: after a violation is
\* found the run carries no exception, the table can be built, and the table
\* run_simulation returns contains every patient of the cohort.
C17_ViolationNotFatal ==
    violations # <<>> =>
        /\ pc \in {"checked", "done"}
        /\ error = "none"
        /\ pc = "checked" => ENABLED <<BuildTable>>_vars
        /\ pc = "done" => OneRowPerPatient

\* run_simulation has returned the table of a cohort of two patients in which
\* the consistency check found a violation.
C17_Witness ==
    /\ pc = "done"
    /\ violations # <<>>
    /\ Len(cohort) = 2
    /\ Len(cohort_df) = 2

\* C18: at the end of the run the consistency check has reported every
\* violation present in the cohort, each violating patient and rule and not
\* only the first one encountered.
C18_AllViolationsReported ==
    pc \in {"checked", "done"} =>
        {violations[k] : k \in DOMAIN violations}
            = {Violation(cohort[ik[1]], ik[2]) : ik \in FailingChecks}


\* C20: the table run_simulation returns has exactly one row per generated
\* patient (each id 1..N exactly once, no row added or dropped), in ascending
\* order of diagnosis date.
C20_OneRowPerPatientSorted ==
    pc = "done" =>
        /\ OneRowPerPatient
        /\ \A j, k \in 1..Len(cohort_df) :
               j < k => cohort_df[j].diagnosis_date[1] <= cohort_df[k].diagnosis_date[1]

\* run_simulation has returned the table of a cohort whose second patient was
\* diagnosed before its first: the table starts with the second patient.
C20_Witness ==
    /\ pc = "done"
    /\ Len(cohort) = 2
    /\ cohort[2].diagnosis_date[1] < cohort[1].diagnosis_date[1]
    /\ cohort_df[1].patient_id = 2
    /\ cohort_df[2].patient_id = 1

-----------------------------------------------------------------------------
(* Properties of the survival curve sampler *)

\* The curve {1: 0.85, 3: 0.45, 5: 0.32}.
ScenarioCurve == << <<1, 85>>, <<3, 45>>, <<5, 32>> >>

\* determine_death_date has returned for the probe's draw.
DeathDateReturned ==
    /\ probe.fn = "determine_death_date"
    /\ probe.at = "returned"

\* C19 as claimed: for the curve {1: 0.85, 3: 0.45, 5: 0.32} the draw u = 0.85
\* returns the year offset 0, and every draw below 0.32 returns undefined, so
\* that determine_death_date returns no death date.
C19_AnchorAtZero ==
    (DeathDateReturned /\ probe.survival_probabilities = ScenarioCurve) =>
        /\ probe.u = 85 => probe.year_delta = <<0, 1>>
        /\ probe.u < 32 => (probe.year_delta = NaN /\ probe.death_date = None)

\* C19 amended: for the curve {1: 0.85, 3: 0.45, 5: 0.32} the draw u = 0.85
\* returns the year offset 1, the year of the curve's item for 0.85, so that
\* the death date is 365 days after the diagnosis; every draw below 0.32
\* returns undefined, so that determine_death_date returns no death date.
C19_AnchorAtItsYear ==
    (DeathDateReturned /\ probe.survival_probabilities = ScenarioCurve) =>
        /\ probe.u = 85 =>
             /\ probe.year_delta = <<1, 1>>
             /\ probe.death_date = Some(probe.diagnosis_date + 365)
        /\ probe.u < 32 => (probe.year_delta = NaN /\ probe.death_date = None)

\* determine_death_date has returned for the draw u = 0.85 on the scenario's
\* curve, with a death date one year (365 days) after the diagnosis.
C19_Witness ==
    /\ DeathDateReturned
    /\ probe.survival_probabilities = ScenarioCurve
    /\ probe.u = 85
    /\ probe.year_delta = <<1, 1>>
    /\ probe.death_date = Some(probe.diagnosis_date + 365)


-----------------------------------------------------------------------------
(* Properties of is_event_exported *)

\* is_event_exported has returned for the probe's arguments.
IsExportedReturned ==
    /\ probe.fn = "is_event_exported"
    /\ probe.at = "returned"

\* C21: is_event_exported(event_date, exported_date, as_of) is true iff
\* event_date is unset, or exported_date is set and exported_date <= as_of; it
\* is false for a set event_date with an unset exported_date or an
\* exported_date later than as_of.
C21_ExportedByDate ==
    IsExportedReturned =>
        /\ probe.result <=>
               \/ probe.event_date = None
               \/ /\ probe.event_date_exported # None
                  /\ probe.event_date_exported[1] <= probe.export_date
        /\ (/\ probe.event_date # None
            /\ \/ probe.event_date_exported = None
               \/ probe.event_date_exported[1] > probe.export_date)
           => ~probe.result

\* is_event_exported has returned TRUE for an event exported on the very date
\* of the assessment.
C21_Witness ==
    /\ IsExportedReturned
    /\ probe.event_date # None
    /\ probe.event_date_exported = Some(probe.export_date)
    /\ probe.result

\* The probability helper fn has returned or raised.
HelperReturned(fn) == probe.fn = fn /\ probe.at = "returned"

\* A returned probability: the fraction value equals p hundredths.
Equals(value, p) == value[1] = p * value[2]

\* Two returned probabilities over positive denominators, compared.
Less(v, w) == IF v[2] = w[2] THEN v[1] < w[1] ELSE v[1] * w[2] < w[1] * v[2]

\* C22: for every observation_period >= 1 and probabilities within [0,1],
\* calculate_probabilities_over_period returns observation_period entries
\* keyed start_year .. start_year + observation_period - 1, the first value
\* start_prob, the last value end_prob, strictly increasing when
\* start_prob < end_prob and strictly decreasing when start_prob > end_prob.
C22_ProbabilitiesOverPeriod ==
    (/\ HelperReturned("calculate_probabilities_over_period")
     /\ probe.observation_period >= 1
     /\ probe.probability_range[1] \in 0..100
     /\ probe.probability_range[2] \in 0..100)
    => LET n == probe.observation_period
           start_prob == probe.probability_range[1]
           end_prob == probe.probability_range[2]
           result == probe.result
       IN  /\ probe.raised = "none"
           /\ Len(result) = n
           /\ \A k \in 1..n : result[k][1] = probe.start_year + k - 1
           /\ Equals(result[1][2], start_prob)
           /\ Equals(result[n][2], end_prob)
           /\ start_prob < end_prob
                  => \A k \in 1..(n - 1) : Less(result[k][2], result[k + 1][2])
           /\ start_prob > end_prob
                  => \A k \in 1..(n - 1) : Less(result[k + 1][2], result[k][2])

\* The value calculate_missing_probabilities returned for year, if any.
ResultAt(year) == Get(probe.result, year)

\* value lies on the line through (y1, p1) and (y2, p2) at year
OnLine(value, year, y1, p1, y2, p2) ==
    (value[1] - p1 * value[2]) * (y2 - y1) = (p2 - p1) * (year - y1) * value[2]

\* C23: for a non-empty survival_dict and observation_period >= 1,
\* calculate_missing_probabilities returns one entry for every year from the
\* smallest provided year through observation_period; a provided year keeps
\* its value, a missing year between provided years is on the line through
\* its nearest provided neighbours, a year beyond the last provided year is
\* on the line through the last two provided points, or has the last value
\* when one point is provided.
C23_MissingProbabilities ==
    (/\ HelperReturned("calculate_missing_probabilities")
     /\ Len(probe.dict) > 0
     /\ probe.observation_period >= 1)
    => LET provided == KeySet(probe.dict)
           first == SetMin(provided)
           last == SetMax(provided)
           result == probe.result
       IN  /\ probe.raised = "none"
           /\ KeySet(result) = first..probe.observation_period
           /\ Len(result) = Cardinality(KeySet(result))
           /\ \A year \in KeySet(result) :
                 IF year \in provided
                 THEN Equals(ResultAt(year), Get(probe.dict, year))
                 ELSE IF year < last
                 THEN \E l \in provided, u \in provided :
                         /\ l < year /\ year < u
                         /\ ~ \E y \in provided : l < y /\ y < u
                         /\ OnLine(ResultAt(year), year,
                                   l, Get(probe.dict, l), u, Get(probe.dict, u))
                 ELSE IF Cardinality(provided) >= 2
                 THEN \E l \in provided :
                         /\ l < last
                         /\ ~ \E y \in provided : l < y /\ y < last
                         /\ OnLine(ResultAt(year), year,
                                   l, Get(probe.dict, l), last, Get(probe.dict, last))
                 ELSE Equals(ResultAt(year), Get(probe.dict, last))

\* Years 4 and 10 of {1: 0.85, 3: 0.45, 5: 0.32} over ten years: 0.385
\* interpolated and -0.005 extrapolated.
C23_Witness ==
    /\ HelperReturned("calculate_missing_probabilities")
    /\ probe.dict = << <<1, 85>>, <<3, 45>>, <<5, 32>> >>
    /\ probe.observation_period = 10
    /\ Len(probe.result) = 10
    /\ ResultAt(4) = <<77, 2>>
    /\ ResultAt(10) = <<-1, 2>>

\* The input the helper is documented to reject.
InvalidHelperInput ==
    \/ /\ probe.fn = "calculate_probabilities_over_period"
       /\ \/ probe.observation_period < 1
          \/ probe.probability_range[1] < 0 \/ probe.probability_range[1] > 100
          \/ probe.probability_range[2] < 0 \/ probe.probability_range[2] > 100
    \/ /\ probe.fn = "calculate_missing_probabilities"
       /\ (Len(probe.dict) = 0 \/ probe.observation_period < 1)
    \/ /\ probe.fn = "normalize_probabilities"
       /\ Len(probe.dict) = 0

\* C24: a probability helper given invalid input (an observation period
\* below 1, a probability outside [0,1], an empty dictionary) raises
\* ValueError and produces no result.
C24_InvalidInputRejected ==
    (probe.at = "returned" /\ InvalidHelperInput)
    => (probe.raised = "ValueError" /\ probe.result = <<>>)

\* An end probability of 1.1 over five years was rejected.
C24_Witness ==
    /\ HelperReturned("calculate_probabilities_over_period")
    /\ probe.observation_period = 5
    /\ probe.probability_range = <<50, 110>>
    /\ probe.raised = "ValueError"

\* The event of a patient is exported by date d and not abstracted.
EventAbstractableAt(patient, event_name, d) ==
    /\ Exported(patient, event_name) # None
    /\ Exported(patient, event_name)[1] <= d
    /\ Abstracted(patient, event_name) = None

\* C25: an event receives an abstracted date in a cycle only if, at the
\* cycle's assessment date, its exported date is set and <= the assessment date
\* and its abstracted date was unset; the candidates of a cycle are the
\* patients with at least one such event, and the patients abstracted in the
\* cycle are among them.
C25_AbstractedOnlyIfAbstractable ==
    [][InAbstractionLoop =>
          /\ \A i \in Patients : \A e \in EventNames :
                 Abstracted(cohort'[i], e) # Abstracted(cohort[i], e)
                     => EventAbstractableAt(cohort[i], e, assessment_date[1])
          /\ AbstractablePatients(cohort, assessment_date[1])
                 = {i \in Patients :
                       \E e \in EventNames :
                           EventAbstractableAt(cohort[i], e, assessment_date[1])}
          /\ NewlyAbstracted \subseteq AbstractablePatients(cohort, assessment_date[1])]_vars

\* After the first cycle a patient has an abstracted diagnosis and an event
\* exported after that cycle's assessment date, which has no abstracted date.
C25_Witness ==
    /\ InAbstractionLoop
    /\ cycles = 1
    /\ \E i \in Patients : \E e \in EventNames :
         /\ Abstracted(cohort[i], "diagnosis") # None
         /\ Exported(cohort[i], e) # None
         /\ Exported(cohort[i], e)[1]
                > calculate_next_abstraction_assessment_date(sim_params.study_start_date)
         /\ Abstracted(cohort[i], e) = None

\* C26: a patient abstracted in a cycle gets the abstracted date of every event
\* that is abstractable at the cycle's assessment date, so that afterwards none
\* of its events is abstractable at that date, and its events exported after
\* the assessment date stay unabstracted.
C26_SelectedPatientProcessedWholly ==
    [][InAbstractionLoop =>
          \A i \in NewlyAbstracted : \A e \in EventNames :
              /\ EventAbstractableAt(cohort[i], e, assessment_date[1])
                     => Abstracted(cohort'[i], e) # None
              /\ ~EventAbstractableAt(cohort'[i], e, assessment_date[1])
              /\ (Exported(cohort[i], e) # None
                      /\ Exported(cohort[i], e)[1] > assessment_date[1])
                     => Abstracted(cohort'[i], e) = None]_vars

\* Under a two-month cadence a patient's diagnosis and treatment were exported
\* together and abstracted in the first cycle, while its death, exported after
\* the first assessment date, has no abstracted date.
C26_Witness ==
    /\ InAbstractionLoop
    /\ cycles = 1
    /\ sim_params.db_update_frequency_in_months = 2
    /\ \E i \in Patients :
         /\ Exported(cohort[i], "diagnosis") = Exported(cohort[i], "drug")
         /\ Abstracted(cohort[i], "diagnosis") # None
         /\ Abstracted(cohort[i], "drug") # None
         /\ Exported(cohort[i], "death") # None
         /\ Exported(cohort[i], "death")[1] > Exported(cohort[i], "drug")[1]
         /\ Abstracted(cohort[i], "death") = None

\* The export boundary k cadence periods after study_start's month.
CadenceBoundary(k) ==
    FirstOfMonth(MonthIndex(sim_params.study_start_date)
                     + k * sim_params.db_update_frequency_in_months)

\* The loop is at its k-th assessment date, k = cycles + 1, as long as the
\* cycle count is exact.
AtCountedAssessmentDate == InAbstractionLoop /\ cycles < CyclesCap

\* C27 as stated: the assessment date starts at the first export-cadence
\* boundary after study_start, the date calculate_exported_date assigns to an
\* event preceding study_start, and every assessment date is a cadence
\* boundary, the k-th one k cadence periods after study_start's month.
C27_AssessmentAtBoundary ==
    AtCountedAssessmentDate =>
        /\ cycles = 0 =>
               assessment_date =
                   calculate_exported_date(Some(sim_params.study_start_date - 1),
                                           sim_params.study_start_date,
                                           sim_params.db_update_frequency_in_months)
        /\ assessment_date[1] = CadenceBoundary(cycles + 1)

\* C27, amended: the k-th assessment date is the second day of the month k
\* cadence periods after study_start's month, the day after the k-th export
\* boundary after study_start.
C27_AssessmentDayAfterBoundary ==
    AtCountedAssessmentDate =>
        /\ assessment_date[1] = CadenceBoundary(cycles + 1) + 1
        /\ DayOf(assessment_date[1]) = 2
        /\ MonthIndex(assessment_date[1])
               = MonthIndex(sim_params.study_start_date)
                     + (cycles + 1) * sim_params.db_update_frequency_in_months

\* The third assessment date of a run with a monthly cadence that started on
\* 2020-01-15: 2020-04-02.
C27_Witness ==
    /\ InAbstractionLoop
    /\ cycles = 2
    /\ sim_params.db_update_frequency_in_months = 1
    /\ assessment_date = Some(Date(2020, 4, 2))

\* The events (patient, event) of a cohort with an unset abstracted date.
Unabstracted(patients) ==
    {<<i, e>> \in (1..Len(patients)) \X EventNames : Abstracted(patients[i], e) = None}

\* C28: an abstracted date that is set is neither changed nor cleared by a
\* later cycle, and the number of events with an unset abstracted date does not
\* increase from one cycle to the next.
C28_AbstractedOnce ==
    [][InAbstractionLoop =>
          /\ \A i \in Patients : \A e \in EventNames :
                 Abstracted(cohort[i], e) # None
                     => Abstracted(cohort'[i], e) = Abstracted(cohort[i], e)
          /\ Cardinality(Unabstracted(cohort')) <= Cardinality(Unabstracted(cohort))]_vars

\* After two cycles a patient has its diagnosis, abstracted before the
\* treatment was exported, and its treatment abstracted.
C28_Witness ==
    /\ cycles >= 2
    /\ \E i \in Patients :
         /\ Abstracted(cohort[i], "diagnosis") # None
         /\ Abstracted(cohort[i], "drug") # None
         /\ Abstracted(cohort[i], "diagnosis")[1] < Exported(cohort[i], "drug")[1]

\* The patients of a cohort with an event exported by date d and not
\* abstracted.
CandidatesAt(patients, d) ==
    {i \in 1..Len(patients) :
        \E e \in EventNames : EventAbstractableAt(patients[i], e, d)}

\* The patients with an unabstracted event exported after lo and by hi.
ExportedBetween(patients, lo, hi) ==
    {i \in 1..Len(patients) :
        \E e \in EventNames :
            /\ EventAbstractableAt(patients[i], e, hi)
            /\ Exported(patients[i], e)[1] > lo}

\* A cycle after which the loop goes on to its next assessment date.
CycleContinues == InAbstractionLoop /\ pc' = "abstracting"

\* C29 as stated: the abstractable patients of each cycle are a subset of the
\* abstractable patients of the previous cycle.
C29_CandidatesShrink ==
    [][CycleContinues =>
          AbstractablePatients(cohort', assessment_date'[1])
              \subseteq AbstractablePatients(cohort, assessment_date[1])]_vars

\* C29, amended: the abstractable patients of a cycle are the abstractable
\* patients of the previous cycle that were not selected in it, and the
\* patients with an event exported after the previous assessment date and by
\* the new one; the events that are exported and not abstracted only shrink.
C29_CandidatesCarriedOrNewlyExported ==
    [][CycleContinues =>
          /\ AbstractablePatients(cohort', assessment_date'[1])
                 = (CandidatesAt(cohort, assessment_date[1]) \ NewlyAbstracted)
                       \cup ExportedBetween(cohort', assessment_date[1],
                                            assessment_date'[1])
          /\ \A i \in Patients : \A e \in EventNames :
                 (Exported(cohort'[i], e) # None /\ Abstracted(cohort'[i], e) = None)
                     => (Exported(cohort[i], e) # None /\ Abstracted(cohort[i], e) = None)]_vars

\* In the second cycle of a monthly run a patient is abstractable none of
\* whose events was exported by the first assessment date.
C29_Witness ==
    /\ InAbstractionLoop
    /\ cycles = 1
    /\ sim_params.db_update_frequency_in_months = 1
    /\ \E i \in AbstractablePatients(cohort, assessment_date[1]) :
         \A e \in EventNames :
             Exported(cohort[i], e) # None
                 => Exported(cohort[i], e)[1]
                        > calculate_next_abstraction_assessment_date(
                              sim_params.study_start_date)

\* The throughput of a cycle, patients_abstracted_per_month x
\* db_update_frequency_in_months, is at least one patient.
PositiveThroughput ==
    /\ sim_params.patients_abstracted_per_month >= 1
    /\ sim_params.db_update_frequency_in_months >= 1

\* C30: under a positive throughput, an event that is abstractable at a
\* cycle's assessment date and is not abstracted in that cycle keeps the loop
\* running and is abstractable at the next assessment date; every cycle
\* with a candidate abstracts at least one event, so the backlog is worked off
\* in finitely many cycles; when the loop has returned, no event is left that
\* is abstractable at an assessment date the loop reached; the loop does not
\* end with an exception, and while it runs its next iteration can be taken.
C30_BacklogKept ==
    /\ [][(InAbstractionLoop /\ PositiveThroughput) =>
             /\ \A i \in Patients : \A e \in EventNames :
                    (/\ EventAbstractableAt(cohort[i], e, assessment_date[1])
                     /\ Abstracted(cohort'[i], e) = None)
                        => /\ pc' = "abstracting"
                           /\ assessment_date'[1] >= assessment_date[1]
                           /\ EventAbstractableAt(cohort'[i], e, assessment_date'[1])
             /\ CandidatesAt(cohort, assessment_date[1]) # {}
                    => Cardinality(Unabstracted(cohort'))
                           < Cardinality(Unabstracted(cohort))]_vars
    /\ []((AbstractionReturned /\ PositiveThroughput) =>
             CandidatesAt(cohort, assessment_date[1]) = {})
    /\ []((pc = "abstraction_raised") => ~PositiveThroughput)
    /\ []((InAbstractionLoop /\ PositiveThroughput) =>
             ENABLED <<AbstractionExit \/ AbstractionCycle>>_vars)

\* After two cycles with a throughput of one patient per cycle, two patients
\* whose diagnoses were exported together both have an abstracted diagnosis:
\* one of them waited for the second cycle.
C30_Witness ==
    /\ cycles = 2
    /\ sim_params.patients_abstracted_per_month
           * sim_params.db_update_frequency_in_months = 1
    /\ \E i, j \in Patients :
         /\ i # j
         /\ Exported(cohort[i], "diagnosis") = Exported(cohort[j], "diagnosis")
         /\ Abstracted(cohort[i], "diagnosis") # None
         /\ Abstracted(cohort[j], "diagnosis") # None

\* The events (patient, event) of a cohort with an exported date.
ExportedEvents(patients) ==
    {<<i, e>> \in (1..Len(patients)) \X EventNames : Exported(patients[i], e) # None}

\* C31: when patients_abstracted_per_month x cadence >= 1, every iteration of
\* the loop that finds an abstractable patient sets at least one abstracted
\* date that was unset, and generate_abstracted_dates has returned after at
\* most (number of events with an exported date) + 1 iterations.
C31_IterationsBounded ==
    /\ [][(/\ InAbstractionLoop
           /\ sim_params.patients_abstracted_per_month
                  * sim_params.db_update_frequency_in_months >= 1
           /\ AbstractablePatients(cohort, assessment_date[1]) # {})
          => \E i \in Patients : \E e \in EventNames :
                 Abstracted(cohort[i], e) = None /\ Abstracted(cohort'[i], e) # None]_vars
    /\ []((/\ pc \in {"abstracting", "returned"}
           /\ sim_params.patients_abstracted_per_month
                  * sim_params.db_update_frequency_in_months >= 1)
          => /\ cycles < CyclesCap
             /\ cycles <= Cardinality(ExportedEvents(cohort)) + 1
             /\ pc = "abstracting"
                    => cycles <= Cardinality(ExportedEvents(cohort))
                                     - Cardinality(ExportedEvents(cohort)
                                                       \cap Unabstracted(cohort)))

\* generate_abstracted_dates has returned after as many iterations as there
\* are exported events, more than one, one patient per iteration.
C31_Witness ==
    /\ pc = "returned"
    /\ sim_params.patients_abstracted_per_month
           * sim_params.db_update_frequency_in_months = 1
    /\ cycles >= 2
    /\ cycles = Cardinality(ExportedEvents(cohort))

\* The three exported fields of a patient.
ExportedFields == {e \o "_date_exported" : e \in EventNames}

\* C32: generate_exported_dates changes only the three exported fields of each
\* patient; an abstraction cycle changes only the abstracted field of events
\* that were abstractable at the cycle's assessment date; in both stages the
\* cohort keeps its size and every other field of every patient, so patient
\* ids, drugs, occurred dates, the death recorded date, exported dates during
\* abstraction and unselected patients are unchanged.
C32_Frame ==
    [][/\ pc = "generated" =>
            /\ Len(cohort') = Len(cohort)
            /\ \A i \in Patients :
                   /\ DOMAIN cohort'[i] = DOMAIN cohort[i]
                   /\ \A attr \in DOMAIN cohort[i] \ ExportedFields :
                          cohort'[i][attr] = cohort[i][attr]
       /\ InAbstractionLoop =>
            /\ Len(cohort') = Len(cohort)
            /\ \A i \in Patients :
                   /\ DOMAIN cohort'[i] = DOMAIN cohort[i]
                   /\ \A attr \in DOMAIN cohort[i] :
                          cohort'[i][attr] # cohort[i][attr]
                              => \E e \in EventNames :
                                     /\ attr = e \o "_date_abstracted"
                                     /\ EventAbstractableAt(cohort[i], e,
                                                            assessment_date[1])
                   /\ i \notin NewlyAbstracted => cohort'[i] = cohort[i]]_vars

\* After the export stage and one cycle with room for one patient: one patient
\* has an abstracted treatment, another has exported dates and no abstracted
\* date at all.
C32_Witness ==
    /\ cycles = 1
    /\ \E i, j \in Patients :
         /\ Abstracted(cohort[i], "drug") # None
         /\ Exported(cohort[j], "diagnosis") # None
         /\ Exported(cohort[j], "diagnosis")[1] < assessment_date[1]
         /\ \A e \in EventNames : Abstracted(cohort[j], e) = None

\* A patient record breaks one of the orderings the check is stated to test.
Inconsistent(patient) ==
    \/ patient.diagnosis_date = None
    \/ /\ patient.death_date # None
       /\ \/ patient.death_date_recorded = None
          \/ patient.death_date_recorded[1] < patient.death_date[1]
    \/ \E e \in EventNames :
          \/ ~Ordered(Occurred(patient, e), Exported(patient, e))
          \/ ~Ordered(Exported(patient, e), Abstracted(patient, e))
          \/ ~Ordered(Occurred(patient, e), Abstracted(patient, e))

\* C33: sanity_check_patient_records raises iff some patient has an unset
\* diagnosis date, a set death date with an unset or earlier recorded date, or
\* an event with occurred > exported, exported > abstracted or occurred >
\* abstracted among its set dates; it raises nothing for a cohort that keeps
\* all of these orderings.
C33_SignalsIffInconsistent ==
    (probe.fn = "sanity_check_patient_records" /\ probe.at = "returned")
    => ((probe.raised # <<>>)
            <=> \E k \in DOMAIN probe.patients : Inconsistent(probe.patients[k]))

\* A second patient whose only fault is a treatment abstracted before it
\* occurred, with no exported date in between, was reported.
C33_Witness ==
    /\ probe.fn = "sanity_check_patient_records"
    /\ probe.at = "returned"
    /\ Len(probe.patients) = 2
    /\ probe.patients[2].drug_date = Some(Date(2020, 2, 2))
    /\ probe.patients[2].drug_date_exported = None
    /\ probe.patients[2].drug_date_abstracted = Some(Date(2020, 2, 1))
    /\ probe.raised = << [patient_id |-> 2, rule |-> "after_abstraction", event |-> "drug"] >>

\* The cadence is at least one month and no latency range of the configuration
\* has a negative bound.
NonNegativeLatencies ==
    /\ sim_params.db_update_frequency_in_months >= 1
    /\ \A k \in 1..2 :
         /\ sim_params.death_date_recording_latency_range[k] >= 0
         /\ \A e \in EventNames : LatencyRange(e)[k] >= 0

\* C34: with a cadence >= 1 and latency ranges without negative bounds, the
\* cohort passes sanity_check_patient_records once it is generated, after the
\* export stage, after every abstraction cycle and in the final state.
C34_CohortPassesSanityCheck ==
    (pc # "start" /\ NonNegativeLatencies)
    => /\ sanity_check_patient_records(cohort) = <<>>
       /\ pc \in {"checked", "done", "table_raised"} => violations = <<>>

\* After a cycle of such a run a patient has a death recorded a day after it
\* occurred and a diagnosis abstracted a day after its export.
C34_Witness ==
    /\ InAbstractionLoop
    /\ cycles >= 1
    /\ NonNegativeLatencies
    /\ \E i \in Patients :
         /\ cohort[i].death_date # None
         /\ cohort[i].death_date_recorded[1] > cohort[i].death_date[1]
         /\ Abstracted(cohort[i], "diagnosis") # None
         /\ Abstracted(cohort[i], "diagnosis")[1] > Exported(cohort[i], "diagnosis")[1]

\* The months from an event's month to the month of its export date.
MonthsToExport(event_date, exported_date) ==
    MonthIndex(exported_date[1]) - MonthIndex(event_date[1])

\* C35: for a fixed study_start and cadence >= 1 and event dates e1 <= e2,
\* before or after study_start, calculate_exported_date(e1) <=
\* calculate_exported_date(e2); and the export month of an event on or after
\* study_start is between 1 and cadence months after the event's month.
C35_ExportMonotone ==
    (probe.fn = "calculate_exported_date" /\ probe.at = "exported")
    => /\ probe.earlier_exported_date # None
       /\ probe.later_exported_date # None
       /\ probe.earlier_exported_date[1] <= probe.later_exported_date[1]
       /\ probe.earlier_event_date[1] >= probe.study_start_date
              => MonthsToExport(probe.earlier_event_date, probe.earlier_exported_date)
                     \in 1..probe.db_update_frequency_in_months
       /\ probe.later_event_date[1] >= probe.study_start_date
              => MonthsToExport(probe.later_event_date, probe.later_exported_date)
                     \in 1..probe.db_update_frequency_in_months

\* Under a two-month cadence from 2020-01-15, an event the day before the
\* study start and an event in the boundary month March were exported on
\* 2020-03-01 and 2020-05-01.
C35_Witness ==
    /\ probe.fn = "calculate_exported_date"
    /\ probe.at = "exported"
    /\ probe.study_start_date = Date(2020, 1, 15)
    /\ probe.db_update_frequency_in_months = 2
    /\ probe.earlier_event_date = Some(Date(2020, 1, 14))
    /\ probe.later_event_date = Some(Date(2020, 3, 10))
    /\ probe.earlier_exported_date = Some(Date(2020, 3, 1))
    /\ probe.later_exported_date = Some(Date(2020, 5, 1))

\* round(year_delta * 365.25) for a year offset <<numerator, denominator>>:
\* the nearest whole number of days, a tie going to the even one.
RoundedDays(year_delta) ==
    LET num == year_delta[1] * 36525
        den == year_delta[2] * 100
        whole == num \div den
        twice == 2 * (num % den)
    IN  IF twice > den \/ (twice = den /\ whole % 2 = 1) THEN whole + 1 ELSE whole

\* C36 as stated: determine_death_date returns no date iff the interpolant is
\* undefined for the draw, and otherwise diagnosis_date plus year_delta x
\* 365.25 days rounded to the nearest whole day, never before diagnosis_date.
C36_DeathDateRounded ==
    DeathDateReturned =>
        /\ probe.death_date = None <=> probe.year_delta = NaN
        /\ probe.year_delta # NaN =>
             /\ probe.death_date = Some(probe.diagnosis_date + RoundedDays(probe.year_delta))
             /\ probe.death_date[1] >= probe.diagnosis_date

\* The largest configured year and the lowest configured probability of the
\* probe's curve.
LargestYear == SetMax(KeySet(probe.survival_probabilities))

LowestProbability ==
    SetMin({probe.survival_probabilities[k][2] : k \in DOMAIN probe.survival_probabilities})

\* C37: the interpolant maps probability 1.0 to year 0 and each configured
\* probability to its year; for arguments inside its domain the result does
\* not increase as the argument increases and lies in [0, largest configured
\* year].
C37_InterpolantAnchored ==
    (probe.fn = "_get_interpolator" /\ probe.at = "returned")
    => /\ probe.upper_u = 100 => probe.upper_year_delta = <<0, 1>>
       /\ \A k \in DOMAIN probe.survival_probabilities :
            /\ probe.lower_u = probe.survival_probabilities[k][2]
                   => Equals(probe.lower_year_delta, probe.survival_probabilities[k][1])
            /\ probe.upper_u = probe.survival_probabilities[k][2]
                   => Equals(probe.upper_year_delta, probe.survival_probabilities[k][1])
       /\ (probe.lower_u >= LowestProbability /\ probe.upper_u <= 100)
              => /\ probe.lower_year_delta # NaN
                 /\ probe.upper_year_delta # NaN
                 /\ ~Less(probe.lower_year_delta, probe.upper_year_delta)
                 /\ ~Less(probe.lower_year_delta, <<0, 1>>)
                 /\ ~Less(<<LargestYear, 1>>, probe.lower_year_delta)
                 /\ ~Less(probe.upper_year_delta, <<0, 1>>)
                 /\ ~Less(<<LargestYear, 1>>, probe.upper_year_delta)

\* On the curve {2: 0.5} the arguments 0.6 and 1.0 gave the year offsets 1.6
\* and 0.
C37_Witness ==
    /\ probe.fn = "_get_interpolator"
    /\ probe.at = "returned"
    /\ probe.survival_probabilities = << <<2, 50>> >>
    /\ probe.lower_u = 60
    /\ probe.upper_u = 100
    /\ probe.lower_year_delta = <<80, 50>>
    /\ probe.upper_year_delta = <<0, 1>>

=============================================================================
